---- MODULE Spec2Model ----
(***************************************************************************)
(* Model of the fundsp network unit (src/src/net.rs): a graph of audio     *)
(* units with editable wiring, a cached evaluation order, and the tick /   *)
(* process execution passes.  Node and port indices are 0-based as in the  *)
(* source; TLA+ sequences are 1-based, so vertex id i is vertex[i + 1].    *)
(***************************************************************************)
EXTENDS Integers, Sequences, FiniteSets, TLC

(***************************************************************************)
(* Bounds of the model.  Spec explores every operation, with in-range and  *)
(* out-of-range arguments, on small nets; SpecOrder explores larger graphs *)
(* wired with in-range arguments.                                          *)
(***************************************************************************)
\* Spec: largest number of vertices.
MaxVertices == 2
\* Spec: largest number of edge slots (vertex inputs and net outputs) wired
\* to something else than Zero at the same time.
MaxWired == 2
\* SpecOrder: largest number of vertices.
MaxOrderVertices == 4
\* SpecOrder: largest number of vertex inputs in the net.
MaxOrderSlots == 4
\* SpecEdit: largest number of vertices.
MaxEditVertices == 2
\* SpecEdit: largest number of edge slots wired to something else than Zero.
MaxEditWired == 2
\* SpecChain: largest number of vertices.
MaxChainVertices == 3
\* Largest number of tick and process calls per behaviour.
MaxCalls == 2
\* Largest number of editing operations made after the first tick or
\* process call.
MaxLate == 1
\* Largest block length passed to process; also the modelled buffer length.
MaxBlock == 2

VARIABLES
    input,        \* Net.input: the global input buffer, as its channel count
    output,       \* Net.output: the global output buffer, as its channel count
    output_edge,  \* Net.output_edge: sources of the global outputs
    vertex,       \* Net.vertex: the vertices of the graph
    order,        \* Net.order: cached ordering of vertex evaluation
    ordered,      \* Net.ordered: whether the cached order is up to date
    fatal,        \* panic message of the call that aborted the program, or "none"
    last,         \* the last operation called on the net, with what it observed
    calls,        \* number of tick and process calls made so far
    late          \* number of editing operations made after the first such call

\* The state of the other modules: a streamed load (read_stream.rs), an
\* envelope node (envelope.rs) and the arity aliases (hacker.rs).
VARIABLES
    file,         \* the media file handed to load_track, as the decoder sees it
    request,      \* load_track's track argument: <<>> for None, <<t>> for Some(t)
    caller,       \* where load_track is, or what it returned
    task,         \* the spawned decode task: its position and locals
    rx,           \* the handles sent on the channel and not yet received
    wave,         \* the WaveStream behind the handle: <<>> before it is created
    lock,         \* the RwLock around the wave
    component,    \* the fields of an EnvelopeNode
    heard,        \* the samples the component output since construction or reset
    pinged,       \* whether ping changed the hash since construction or reset
    arity,        \* the n of the alias Un being resolved
    denoted       \* the type-level integer Un resolved to, as <<bits>>

netVars == <<input, output, output_edge, vertex, order, ordered, fatal, last, calls, late>>

streamVars == <<file, request, caller, task, rx, wave, lock>>

envelopeVars == <<component, heard, pinged>>

aliasVars == <<arity, denoted>>

vars == <<netVars, streamVars, envelopeVars, aliasVars>>

\* No load is under way.
NoStream ==
    /\ file = [opened |-> FALSE, probed |-> FALSE, tracks |-> <<>>, packets |-> <<>>]
    /\ request = <<>>
    /\ caller = "idle"
    /\ task = [pc |-> "idle", track_id |-> 0, channels |-> 0, next |-> 1, channel |-> 0]
    /\ rx = <<>>
    /\ wave = <<>>
    /\ lock = [writer |-> FALSE, readers |-> 0]

\* No envelope node exists.
NoEnvelope ==
    /\ component = <<>>
    /\ heard = <<>>
    /\ pinged = FALSE

\* No alias is being resolved.
NoAlias ==
    /\ arity = 0
    /\ denoted = <<>>

(***************************************************************************)
(* Port and Edge (net.rs 13-33).                                           *)
(***************************************************************************)
Local(node, port) == [kind |-> "Local", node |-> node, port |-> port]
Global(port) == [kind |-> "Global", node |-> 0, port |-> port]
Zero == [kind |-> "Zero", node |-> 0, port |-> 0]

edge(source, target) == [source |-> source, target |-> target]

(***************************************************************************)
(* The audio units a net can own; each is an external collaborator with a  *)
(* fixed arity and a deterministic single-sample transform.                *)
(*   dc(c)   : 0 inputs, 1 output, the constant c                          *)
(*   dc2     : 0 inputs, 2 outputs, the constants 2 and 3                  *)
(*   pass    : 1 input, 1 output, the input unchanged                      *)
(*   sum     : 2 inputs, 1 output, the sum of the inputs                   *)
(*   swap    : 2 inputs, 2 outputs, the inputs in exchanged order          *)
(*   tag0(c) : 0 inputs, 1 output, the constant c, which is its parameter  *)
(*             with tag 0                                                  *)
(*   tag1(c) : as tag0, with tag 1                                         *)
(***************************************************************************)
Unit(kind, c) == [kind |-> kind, c |-> c]

Units == {Unit("dc", 2), Unit("dc2", 0), Unit("pass", 0), Unit("sum", 0)}

UnitInputs(unit) ==
    CASE unit.kind = "dc" -> 0
      [] unit.kind = "dc2" -> 0
      [] unit.kind = "pass" -> 1
      [] unit.kind = "sum" -> 2
      [] unit.kind = "swap" -> 2
      [] unit.kind \in {"tag0", "tag1"} -> 0

UnitOutputs(unit) ==
    CASE unit.kind = "dc" -> 1
      [] unit.kind = "dc2" -> 2
      [] unit.kind = "pass" -> 1
      [] unit.kind = "sum" -> 1
      [] unit.kind = "swap" -> 2
      [] unit.kind \in {"tag0", "tag1"} -> 1

\* unit.tick(input, output): the output frame for one input frame.
UnitTick(unit, in) ==
    CASE unit.kind = "dc" -> <<unit.c>>
      [] unit.kind = "dc2" -> <<2, 3>>
      [] unit.kind = "pass" -> <<in[1]>>
      [] unit.kind = "sum" -> <<in[1] + in[2]>>
      [] unit.kind = "swap" -> <<in[2], in[1]>>
      [] unit.kind \in {"tag0", "tag1"} -> <<unit.c>>

\* The tag of the parameter unit recognises, -1 if it has no parameter.
UnitTag(unit) ==
    CASE unit.kind = "tag0" -> 0
      [] unit.kind = "tag1" -> 1
      [] OTHER -> -1

\* unit.set(parameter, value): a unit ignores a tag it does not recognise.
UnitSet(unit, parameter, value) ==
    IF UnitTag(unit) = parameter THEN [unit EXCEPT !.c = value] ELSE unit

\* unit.get(parameter): the value of the parameter, or None.
UnitGet(unit, parameter) ==
    IF UnitTag(unit) = parameter THEN [ok |-> TRUE, x |-> unit.c]
    ELSE [ok |-> FALSE, x |-> 0]

(***************************************************************************)
(* Helpers on sequences.                                                   *)
(***************************************************************************)
Zeros(n) == [i \in 1..n |-> 0]

\* Buffer::with_size(channels): zero-filled channels of MaxBlock samples each.
BufferWithSize(channels) == [ch \in 1..channels |-> Zeros(MaxBlock)]

(***************************************************************************)
(* Vertex (net.rs 41-83).                                                  *)
(***************************************************************************)
\* Vertex48::new(id, inputs, outputs): the placeholder a vertex is swapped
\* with while it is evaluated; it owns a pass unit and has no edges.
VertexNew(id, inputs, outputs) ==
    [unit |-> Unit("pass", 0),
     source |-> <<>>,
     input |-> BufferWithSize(inputs),
     output |-> BufferWithSize(outputs),
     tick_input |-> Zeros(inputs),
     tick_output |-> Zeros(outputs),
     id |-> id]

VertexInputs(v) == Len(v.input)

VertexOutputs(v) == Len(v.output)

(***************************************************************************)
(* Net::new (net.rs 114-128).                                              *)
(***************************************************************************)
NetNew(inputs, outputs) ==
    [input |-> inputs,
     output |-> outputs,
     output_edge |-> [channel \in 1..outputs |-> edge(Zero, Global(channel - 1))],
     vertex |-> <<>>,
     order |-> <<>>,
     ordered |-> TRUE]

(***************************************************************************)
(* Order determination (net.rs 130-196).  The working state of             *)
(* determine_order_in is the record                                        *)
(*   [vertices_left, vertex_left, inputs_left, order, fatal]               *)
(* where fatal is the panic that ended it, or "none".  Two fields record    *)
(* its course: counted, the positions in all_edges of the edges that        *)
(* lowered a counter, in the order they did, and scans, the number of       *)
(* passes of the while loop.                                               *)
(***************************************************************************)
\* all_edges (net.rs 144-149): the incoming edges of all vertices, in
\* vertex order and, per vertex, in input order.
RECURSIVE AllEdgesFrom(_, _)
AllEdgesFrom(vs, i) ==
    IF i > Len(vs) THEN <<>> ELSE vs[i].source \o AllEdgesFrom(vs, i + 1)

all_edges(vs) == AllEdgesFrom(vs, 1)

\* Fault injection for C24: a vertex joins the order but stays marked as
\* left.
PushOrderedStillLeft(st, v) ==
    [st EXCEPT !.order = Append(@, v),
               !.vertices_left = @ - 1]

\* net.rs 155-157, 169-171, 185-187: vertex v (0-based) joins the order.
PushOrdered(st, v) ==
    [st EXCEPT !.vertex_left[v + 1] = FALSE,
               !.order = Append(@, v),
               !.vertices_left = @ - 1]

\* net.rs 167-172, 183-188: one input of vertex v is satisfied.
\* usize subtraction below zero aborts (overflow check).
DecrementInputs(st, v) ==
    IF st.inputs_left[v + 1] = 0
    THEN [st EXCEPT !.fatal = "attempt to subtract with overflow"]
    ELSE LET st1 == [st EXCEPT !.inputs_left[v + 1] = @ - 1]
         IN IF st1.inputs_left[v + 1] = 0 THEN PushOrdered(st1, v) ELSE st1

\* net.rs 167, 183: the edge at position k of all_edges lowers a counter.
Counted(st, k) == [st EXCEPT !.counted = Append(@, k)]

\* net.rs 176-177: one more pass of the while loop begins.
Scanned(st) == [st EXCEPT !.scans = @ + 1]

\* net.rs 151-159: seed the counters; units without inputs are ordered at once.
RECURSIVE SeedInputs(_, _, _)
SeedInputs(vs, i, st) ==
    IF i > Len(vs) THEN st
    ELSE LET st1 == [st EXCEPT !.inputs_left[i] = UnitInputs(vs[i].unit)]
             st2 == IF st1.inputs_left[i] = 0 THEN PushOrdered(st1, i - 1) ELSE st1
         IN SeedInputs(vs, i + 1, st2)

\* net.rs 162-175: edges from Global or Zero are satisfied from the start.
RECURSIVE ScanNetworkInputs(_, _, _)
ScanNetworkInputs(edges, k, st) ==
    IF k > Len(edges) \/ st.fatal # "none" THEN st
    ELSE LET e == edges[k]
             st1 ==
                 IF e.source.kind \in {"Global", "Zero"} /\ e.target.kind = "Local"
                 THEN IF e.target.node >= Len(st.vertex_left)
                      THEN [st EXCEPT !.fatal = "index out of bounds"]
                      ELSE IF st.vertex_left[e.target.node + 1]
                           THEN DecrementInputs(Counted(st, k), e.target.node)
                           ELSE st
                 ELSE st
         IN ScanNetworkInputs(edges, k + 1, st1)

\* net.rs 178-191: one scan over the Local -> Local edges.  The result is
\* the working state with the field progress added.
RECURSIVE ScanLocalEdges(_, _, _)
ScanLocalEdges(edges, k, sp) ==
    IF k > Len(edges) \/ sp.st.fatal # "none" THEN sp
    ELSE LET e == edges[k]
             st == sp.st
             sp1 ==
                 IF e.source.kind = "Local" /\ e.target.kind = "Local"
                 THEN IF e.source.node >= Len(st.vertex_left)
                         \/ e.target.node >= Len(st.vertex_left)
                      THEN [sp EXCEPT !.st.fatal = "index out of bounds"]
                      ELSE IF ~st.vertex_left[e.source.node + 1]
                              /\ st.vertex_left[e.target.node + 1]
                           THEN [st |-> DecrementInputs(Counted(st, k), e.target.node),
                                 progress |-> TRUE]
                           ELSE sp
                 ELSE sp
         IN ScanLocalEdges(edges, k + 1, sp1)

\* Fault injection for C21: a scan without progress ends the loop with the
\* order found so far instead of the panic.
CheckProgressGivesUp(sp) ==
    IF sp.st.fatal = "none" /\ ~sp.progress
    THEN [sp.st EXCEPT !.vertices_left = 0]
    ELSE sp.st

\* net.rs 192-194: after a scan, a panic when it made no progress.
CheckProgress(sp) ==
    IF sp.st.fatal = "none" /\ ~sp.progress
    THEN [sp.st EXCEPT !.fatal = "Cycle detected."]
    ELSE sp.st

\* net.rs 176-195: scan until every vertex is ordered.
RECURSIVE OrderLoop(_, _)
OrderLoop(edges, st) ==
    IF st.fatal # "none" \/ st.vertices_left = 0 THEN st
    ELSE OrderLoop(edges,
                   CheckProgress(ScanLocalEdges(edges, 1,
                                                [st |-> Scanned(st), progress |-> FALSE])))

\* net.rs 139-140, 151: the working state before the first loop.
OrderStart(vs) ==
    [vertices_left |-> Len(vs),
     vertex_left |-> [i \in 1..Len(vs) |-> TRUE],
     inputs_left |-> [i \in 1..Len(vs) |-> 0],
     order |-> <<>>,
     fatal |-> "none",
     counted |-> <<>>,
     scans |-> 0]

\* What a caller of determine_order_in sees: the order pushed to its vector
\* and the panic that ended the call, if any.
OrderResult(st) == [order |-> st.order, fatal |-> st.fatal]

\* The three loops of determine_order_in over the edge list.
OrderEdges(vs, edges) ==
    OrderLoop(edges, ScanNetworkInputs(edges, 1, SeedInputs(vs, 1, OrderStart(vs))))

\* determine_order_in(&self, order) (net.rs 138-196).
determine_order_in(vs) == OrderResult(OrderEdges(vs, all_edges(vs)))

\* net.rs 131-135: ordered is set before the order is computed; a panic
\* leaves the stored order as it was.
StoreOrder(net, r) ==
    IF r.fatal # "none"
    THEN [net EXCEPT !.ordered = TRUE, !.fatal = r.fatal]
    ELSE [net EXCEPT !.ordered = TRUE, !.order = r.order]

\* determine_order(&mut self) (net.rs 130-136).
determine_order(net) == StoreOrder(net, determine_order_in(net.vertex))

(***************************************************************************)
(* The net as one record, so that the operations below are functions from  *)
(* nets to nets.  A panic is recorded in the field fatal; the fields hold  *)
(* what the aborted call had written up to the panic.                      *)
(***************************************************************************)
Net ==
    [input |-> input, output |-> output, output_edge |-> output_edge,
     vertex |-> vertex, order |-> order, ordered |-> ordered, fatal |-> fatal]

Panic(net, message) == [net EXCEPT !.fatal = message]

\* AudioUnit::inputs / outputs of the net (net.rs 324-330).
Inputs(net) == net.input

Outputs(net) == net.output

(***************************************************************************)
(* Editing operations (net.rs 198-315).                                    *)
(***************************************************************************)
\* Fault injection for C14: add numbers the vertices from 1.
AddIdFromOne(net, unit) ==
    LET id == Len(net.vertex) + 1
        inputs == UnitInputs(unit)
        outputs == UnitOutputs(unit)
        v == [unit |-> unit,
              source |-> [i \in 1..inputs |-> edge(Zero, Local(id, i - 1))],
              input |-> BufferWithSize(inputs),
              output |-> BufferWithSize(outputs),
              tick_input |-> Zeros(inputs),
              tick_output |-> Zeros(outputs),
              id |-> id]
    IN [net EXCEPT !.vertex = Append(@, v), !.ordered = FALSE]

\* Fault injection for C16: add leaves out the last input slot.
AddShortSources(net, unit) ==
    LET id == Len(net.vertex)
        inputs == UnitInputs(unit)
        outputs == UnitOutputs(unit)
        v == [unit |-> unit,
              source |-> [i \in 1..(inputs - 1) |-> edge(Zero, Local(id, i - 1))],
              input |-> BufferWithSize(inputs),
              output |-> BufferWithSize(outputs),
              tick_input |-> Zeros(inputs),
              tick_output |-> Zeros(outputs),
              id |-> id]
    IN [net EXCEPT !.vertex = Append(@, v), !.ordered = FALSE]

\* add(unit) (net.rs 200-221); the id returned is Len(net.vertex).
add(net, unit) ==
    LET id == Len(net.vertex)
        inputs == UnitInputs(unit)
        outputs == UnitOutputs(unit)
        v == [unit |-> unit,
              source |-> [i \in 1..inputs |-> edge(Zero, Local(id, i - 1))],
              input |-> BufferWithSize(inputs),
              output |-> BufferWithSize(outputs),
              tick_input |-> Zeros(inputs),
              tick_output |-> Zeros(outputs),
              id |-> id]
    IN [net EXCEPT !.vertex = Append(@, v), !.ordered = FALSE]

\* self.vertex[target].source[target_port] = e, with Rust's bounds checks.
SetSource(net, target, target_port, e) ==
    IF target >= Len(net.vertex) THEN Panic(net, "index out of bounds")
    ELSE IF target_port >= Len(net.vertex[target + 1].source)
    THEN Panic(net, "index out of bounds")
    ELSE [net EXCEPT !.vertex[target + 1].source[target_port + 1] = e]

\* Fault injection for C15: the edge is stored in the slot of network output
\* 0 whatever output is named.
SetOutputEdgeFirst(net, global_output, e) ==
    IF global_output >= Len(net.output_edge) THEN Panic(net, "index out of bounds")
    ELSE [net EXCEPT !.output_edge[1] = e]

\* self.output_edge[global_output] = e, with Rust's bounds check.
SetOutputEdge(net, global_output, e) ==
    IF global_output >= Len(net.output_edge) THEN Panic(net, "index out of bounds")
    ELSE [net EXCEPT !.output_edge[global_output + 1] = e]

\* Fault injection for C6: an editing operation that forgets to mark the
\* cached order invalid.
InvalidateForgotten(net) == net

\* self.ordered = false, reached only when the statements before it did
\* not panic.
Invalidate(net) ==
    IF net.fatal # "none" THEN net ELSE [net EXCEPT !.ordered = FALSE]

\* Fault injection for C17: connect that indexes the slot with the port of
\* the source.
ConnectSourceSlot(net, source, source_port, target, target_port) ==
    Invalidate(SetSource(net, target, source_port,
                         edge(Local(source, source_port), Local(target, target_port))))

\* connect (net.rs 225-237).
connect(net, source, source_port, target, target_port) ==
    Invalidate(SetSource(net, target, target_port,
                         edge(Local(source, source_port), Local(target, target_port))))

\* connect_input (net.rs 240-249).
connect_input(net, global_input, target, target_port) ==
    Invalidate(SetSource(net, target, target_port,
                         edge(Global(global_input), Local(target, target_port))))

\* The loop of pipe_input (net.rs 254-256), from channel i on.
RECURSIVE PipeInputFrom(_, _, _)
PipeInputFrom(net, target, i) ==
    IF i >= Inputs(net) \/ net.fatal # "none" THEN net
    ELSE PipeInputFrom(SetSource(net, target, i, edge(Global(i), Local(target, i))),
                       target, i + 1)

\* pipe_input (net.rs 252-258).
pipe_input(net, target) ==
    IF target >= Len(net.vertex) THEN Panic(net, "index out of bounds")
    ELSE IF VertexInputs(net.vertex[target + 1]) # Inputs(net)
    THEN Panic(net, "assertion failed")
    ELSE Invalidate(PipeInputFrom(net, target, 0))

\* connect_output (net.rs 261-272).
connect_output(net, source, source_port, global_output) ==
    Invalidate(SetOutputEdge(net, global_output,
                             edge(Local(source, source_port), Global(global_output))))

\* The loop of pipe_output (net.rs 278-280), from channel i on.
RECURSIVE PipeOutputFrom(_, _, _)
PipeOutputFrom(net, source, i) ==
    IF i >= Outputs(net) \/ net.fatal # "none" THEN net
    ELSE PipeOutputFrom(SetOutputEdge(net, i, edge(Local(source, i), Global(i))),
                        source, i + 1)

\* pipe_output (net.rs 276-282).
pipe_output(net, source) ==
    IF source >= Len(net.vertex) THEN Panic(net, "index out of bounds")
    ELSE IF VertexOutputs(net.vertex[source + 1]) # Outputs(net)
    THEN Panic(net, "assertion failed")
    ELSE Invalidate(PipeOutputFrom(net, source, 0))

\* Fault injection for C18: join that stores only the edges that end at a
\* vertex.
JoinVertexOnly(net, e) ==
    Invalidate(CASE e.target.kind = "Local" ->
                        SetSource(net, e.target.node, e.target.port, e)
                 [] OTHER -> net)

\* join that stores a vertex edge in the first input slot of its target
\* vertex, whatever the port of the edge's target.
JoinFirstSlot(net, e) ==
    Invalidate(CASE e.target.kind = "Global" -> SetOutputEdge(net, e.target.port, e)
                 [] e.target.kind = "Local" -> SetSource(net, e.target.node, 0, e)
                 [] OTHER -> net)

\* join (net.rs 285-292).
join(net, e) ==
    Invalidate(CASE e.target.kind = "Global" -> SetOutputEdge(net, e.target.port, e)
                 [] e.target.kind = "Local" ->
                        SetSource(net, e.target.node, e.target.port, e)
                 [] OTHER -> net)

\* The loop of pipe (net.rs 298-300), from channel i on.
RECURSIVE PipeFrom(_, _, _, _)
PipeFrom(net, source, target, i) ==
    IF net.fatal # "none" THEN net
    ELSE IF i >= VertexInputs(net.vertex[target + 1]) THEN net
    ELSE PipeFrom(SetSource(net, target, i, edge(Local(source, i), Local(target, i))),
                  source, target, i + 1)

\* Fault injection for C10: pipe without its arity assertion.
PipeUnchecked(net, source, target) ==
    IF source >= Len(net.vertex) \/ target >= Len(net.vertex)
    THEN Panic(net, "index out of bounds")
    ELSE Invalidate(PipeFrom(net, source, target, 0))

\* pipe (net.rs 296-302).
pipe(net, source, target) ==
    IF source >= Len(net.vertex) \/ target >= Len(net.vertex)
    THEN Panic(net, "index out of bounds")
    ELSE IF VertexOutputs(net.vertex[source + 1]) # VertexInputs(net.vertex[target + 1])
    THEN Panic(net, "assertion failed")
    ELSE Invalidate(PipeFrom(net, source, target, 0))

\* Fault injection for C12: chain wires every new vertex from the global
\* inputs, as if it were the first.
ChainInputsAlwaysFirst(net, id) ==
    IF net.fatal # "none" THEN net ELSE pipe_input(net, id)

\* net.rs 310-314: wire the inputs of the vertex chain has added.
ChainInputs(net, id) ==
    IF net.fatal # "none" THEN net
    ELSE IF id > 0 THEN pipe(net, id - 1, id)
    ELSE pipe_input(net, id)

\* Fault injection for C11: chain leaves the network outputs as they were.
ChainWithoutOutput(net, unit) ==
    IF ~(UnitInputs(unit) = UnitOutputs(unit) /\ Outputs(net) = UnitOutputs(unit))
    THEN Panic(net, "assertion failed")
    ELSE ChainInputs(add(net, unit), Len(net.vertex))

\* chain (net.rs 306-315).
chain(net, unit) ==
    IF ~(UnitInputs(unit) = UnitOutputs(unit) /\ Outputs(net) = UnitOutputs(unit))
    THEN Panic(net, "assertion failed")
    ELSE ChainInputs(pipe_output(add(net, unit), Len(net.vertex)), Len(net.vertex))

(***************************************************************************)
(* Execution (net.rs 338-408).  A call works on the record                 *)
(*   [net, evaluated]                                                      *)
(* where evaluated lists, in call order, the ids of the vertices whose     *)
(* unit was invoked.                                                       *)
(***************************************************************************)
\* Fault injection for C7: the cache is marked valid but the order is not
\* recomputed.
EnsureOrderedStale(net) == [net EXCEPT !.ordered = TRUE]

\* The first lines of tick and process (net.rs 339-341, 373-375).
EnsureOrdered(net) == IF ~net.ordered THEN determine_order(net) ELSE net

\* The outcome of an indexed read: the value, or a panic (index out of
\* bounds).
Value(x) == [ok |-> TRUE, x |-> x]

OutOfBounds == [ok |-> FALSE, x |-> 0]

\* Fault injection for C13: a Local read takes port 0 whatever the port.
ReadTickOutputPortZero(net, node, port) ==
    IF node >= Len(net.vertex) THEN OutOfBounds
    ELSE IF port >= Len(net.vertex[node + 1].tick_output) THEN OutOfBounds
    ELSE Value(net.vertex[node + 1].tick_output[1])

\* self.vertex[node].tick_output[port], with Rust's bounds checks.
ReadTickOutput(net, node, port) ==
    IF node >= Len(net.vertex) THEN OutOfBounds
    ELSE IF port >= Len(net.vertex[node + 1].tick_output) THEN OutOfBounds
    ELSE Value(net.vertex[node + 1].tick_output[port + 1])

\* input[port], with Rust's bounds check.
ReadInput(in, port) ==
    IF port >= Len(in) THEN OutOfBounds ELSE Value(in[port + 1])

\* net.rs 348-354 and 364-368: the sample an edge source stands for; during
\* Fault injection for C23: a read of a network input yields silence.
TickReadGlobalSilent(net, src, in) ==
    CASE src.kind = "Zero" -> Value(0)
      [] src.kind = "Global" -> Value(0)
      [] src.kind = "Local" -> ReadTickOutput(net, src.node, src.port)

\* the walk net holds the placeholder at the index of the detached vertex.
TickRead(net, src, in) ==
    CASE src.kind = "Zero" -> Value(0)
      [] src.kind = "Global" -> ReadInput(in, src.port)
      [] src.kind = "Local" -> ReadTickOutput(net, src.node, src.port)

\* Fault injection for C5: an input wired to Zero keeps the sample it held.
SetTickInputSkipZero(v, channel, r) ==
    IF ~r.ok THEN OutOfBounds
    ELSE IF v.source[channel + 1].source.kind = "Zero" THEN Value(v)
    ELSE Value([v EXCEPT !.tick_input[channel + 1] = r.x])

\* vertex.tick_input[channel] = the sample read, unless the read panicked.
SetTickInput(v, channel, r) ==
    IF r.ok THEN Value([v EXCEPT !.tick_input[channel + 1] = r.x]) ELSE OutOfBounds

\* net.rs 347-355: fill tick_input of the detached vertex from channel on.
\* rv is the vertex, or the panic of an earlier read.
RECURSIVE TickGather(_, _, _, _)
TickGather(net, rv, channel, in) ==
    IF ~rv.ok THEN rv
    ELSE IF channel >= VertexInputs(rv.x) THEN rv
    ELSE TickGather(net,
                    SetTickInput(rv.x, channel,
                                 TickRead(net, rv.x.source[channel + 1].source, in)),
                    channel + 1, in)

\* net.rs 346, 359: the container while vertex node_index is swapped out.
Detach(net, node_index) ==
    [net EXCEPT !.vertex[node_index + 1] = VertexNew(node_index, 0, 0)]

\* net.rs 356-358: the unit of the gathered vertex computes tick_output.
TickUnit(v) == [v EXCEPT !.tick_output = UnitTick(v.unit, v.tick_input)]

\* TickStore without the second swap of net.rs 359: the placeholder stays in
\* the container.
TickStoreNoSwapBack(cs, held, node_index, rv) ==
    IF ~rv.ok THEN [cs EXCEPT !.net = Panic(held, "index out of bounds")]
    ELSE [net |-> held, evaluated |-> Append(cs.evaluated, node_index)]

\* net.rs 356-359: invoke the unit and swap the vertex back; a panic of the
\* gathering leaves the placeholder in the container.
TickStore(cs, held, node_index, rv) ==
    IF ~rv.ok THEN [cs EXCEPT !.net = Panic(held, "index out of bounds")]
    ELSE [net |-> [held EXCEPT !.vertex[node_index + 1] = TickUnit(rv.x)],
          evaluated |-> Append(cs.evaluated, node_index)]

\* net.rs 344-359: one iteration of the walk.
TickVertex(cs, held, node_index, in) ==
    TickStore(cs, held, node_index,
              TickGather(held, Value(cs.net.vertex[node_index + 1]), 0, in))

\* net.rs 343-360: evaluate the vertices of ord from position k on.
RECURSIVE TickWalk(_, _, _, _)
TickWalk(cs, ord, k, in) ==
    IF k > Len(ord) \/ cs.net.fatal # "none" THEN cs
    ELSE TickWalk(TickVertex(cs, Detach(cs.net, ord[k]), ord[k], in), ord, k + 1, in)

\* A frame of reads as one read of a frame: a panic if any read panicked.
Gathered(frame) ==
    IF \E channel \in 1..Len(frame) : ~frame[channel].ok
    THEN OutOfBounds
    ELSE Value([channel \in 1..Len(frame) |-> frame[channel].x])

\* net.rs 363-369: the output frame, or a panic.
TickOutputs(net, in) ==
    Gathered([channel \in 1..Outputs(net) |->
                 TickRead(net, net.output_edge[channel].source, in)])

\* What a call returns to the state machine: [net, evaluated, recomputed,
\* out]; out is <<>> when the call panicked.
CallResult(cs, r, recomputed) ==
    [net |-> IF cs.net.fatal = "none" /\ ~r.ok
             THEN Panic(cs.net, "index out of bounds") ELSE cs.net,
     evaluated |-> cs.evaluated,
     recomputed |-> recomputed,
     out |-> IF r.ok THEN r.x ELSE <<>>]

\* net.rs 362-369: the outputs are set when the walk did not panic.
TickFinish(cs, in, recomputed) ==
    CallResult(cs, IF cs.net.fatal # "none" THEN OutOfBounds ELSE TickOutputs(cs.net, in),
               recomputed)

\* net.rs 342-369: tick on the net n0 whose order is up to date.
TickOrdered(n0, in, recomputed) ==
    TickFinish(TickWalk([net |-> n0, evaluated |-> <<>>], n0.order, 1, in), in, recomputed)

\* tick(input, output) (net.rs 338-370).
tick(net, in) == TickOrdered(EnsureOrdered(net), in, ~net.ordered)

(***************************************************************************)
(* process (net.rs 372-408).  A block is a sequence of MaxBlock samples of *)
(* which a call touches the first size.                                    *)
(***************************************************************************)
\* dst[..size].copy_from_slice(&src[..size]), and fill(0.0) with src zeros.
CopySlice(dst, src, size) ==
    [i \in 1..Len(dst) |-> IF i <= size THEN src[i] ELSE dst[i]]

\* self.vertex[node].output.at(port), with Rust's bounds checks.
ReadOutputBlock(net, node, port) ==
    IF node >= Len(net.vertex) THEN OutOfBounds
    ELSE IF port >= Len(net.vertex[node + 1].output) THEN OutOfBounds
    ELSE Value(net.vertex[node + 1].output[port + 1])

\* net.rs 382-391 and 401-406: the block an edge source stands for.
ProcessRead(net, src, in) ==
    CASE src.kind = "Zero" -> Value(Zeros(MaxBlock))
      [] src.kind = "Global" -> ReadInput(in, src.port)
      [] src.kind = "Local" -> ReadOutputBlock(net, src.node, src.port)

\* vertex.input.mut_at(channel)[..size] = the block read, unless the read
\* panicked.
SetInputBlock(v, channel, size, r) ==
    IF r.ok THEN Value([v EXCEPT !.input[channel + 1] = CopySlice(@, r.x, size)])
    ELSE OutOfBounds

\* net.rs 381-392: fill the input buffer of the detached vertex from channel on.
RECURSIVE ProcessGather(_, _, _, _, _)
ProcessGather(net, rv, channel, size, in) ==
    IF ~rv.ok THEN rv
    ELSE IF channel >= VertexInputs(rv.x) THEN rv
    ELSE ProcessGather(net,
                       SetInputBlock(rv.x, channel, size,
                                     ProcessRead(net, rv.x.source[channel + 1].source, in)),
                       channel + 1, size, in)

\* unit.process(size, input, output): a stateless unit maps each of the
\* first size frames as its tick does.
UnitProcess(unit, size, inbuf, outbuf) ==
    [ch \in 1..Len(outbuf) |->
        [i \in 1..Len(outbuf[ch]) |->
            IF i <= size
            THEN UnitTick(unit, [c \in 1..Len(inbuf) |-> inbuf[c][i]])[ch]
            ELSE outbuf[ch][i]]]

\* net.rs 393-395: the unit of the gathered vertex computes its output buffer.
ProcessUnit(v, size) ==
    [v EXCEPT !.output = UnitProcess(v.unit, size, v.input, v.output)]

\* net.rs 393-396: invoke the unit and swap the vertex back.
ProcessStore(cs, held, node_index, size, rv) ==
    IF ~rv.ok THEN [cs EXCEPT !.net = Panic(held, "index out of bounds")]
    ELSE [net |-> [held EXCEPT !.vertex[node_index + 1] = ProcessUnit(rv.x, size)],
          evaluated |-> Append(cs.evaluated, node_index)]

\* net.rs 378-396: one iteration of the walk.
ProcessVertex(cs, held, node_index, size, in) ==
    ProcessStore(cs, held, node_index, size,
                 ProcessGather(held, Value(cs.net.vertex[node_index + 1]), 0, size, in))

\* net.rs 377-397: evaluate the vertices of ord from position k on.
RECURSIVE ProcessWalk(_, _, _, _, _)
ProcessWalk(cs, ord, k, size, in) ==
    IF k > Len(ord) \/ cs.net.fatal # "none" THEN cs
    ELSE ProcessWalk(ProcessVertex(cs, Detach(cs.net, ord[k]), ord[k], size, in),
                     ord, k + 1, size, in)

\* output[channel][..size] of the block read for an output, or its panic.
Slice(r, size) == IF r.ok THEN Value(SubSeq(r.x, 1, size)) ELSE r

\* net.rs 400-407: the output blocks, or a panic.
ProcessOutputs(net, size, in) ==
    Gathered([channel \in 1..Outputs(net) |->
                 Slice(ProcessRead(net, net.output_edge[channel].source, in), size)])

\* net.rs 399-407: the outputs are set when the walk did not panic.
ProcessFinish(cs, size, in, recomputed) ==
    CallResult(cs,
               IF cs.net.fatal # "none" THEN OutOfBounds
               ELSE ProcessOutputs(cs.net, size, in),
               recomputed)

\* net.rs 376-407: process on the net n0 whose order is up to date.
ProcessOrdered(n0, size, in, recomputed) ==
    ProcessFinish(ProcessWalk([net |-> n0, evaluated |-> <<>>], n0.order, 1, size, in),
                  size, in, recomputed)

\* process(size, input, output) (net.rs 372-408).
process(net, size, in) == ProcessOrdered(EnsureOrdered(net), size, in, ~net.ordered)

(***************************************************************************)
(* route (net.rs 410-441).  A signal is a known constant value or unknown. *)
(* The call works on the record [inner_signal, evaluated, fatal].          *)
(***************************************************************************)
SignalUnknown == [kind |-> "Unknown", x |-> 0]

SignalValue(x) == [kind |-> "Value", x |-> x]

\* new_signal_frame(size): a frame of unknown signals.
new_signal_frame(size) == [i \in 1..size |-> SignalUnknown]

\* unit.route(input, frequency): constants propagate through the units.
UnitRoute(unit, in) ==
    CASE unit.kind = "dc" -> <<SignalValue(unit.c)>>
      [] unit.kind = "dc2" -> <<SignalValue(2), SignalValue(3)>>
      [] unit.kind = "pass" -> <<in[1]>>
      [] unit.kind = "sum" ->
            <<IF in[1].kind = "Value" /\ in[2].kind = "Value"
              THEN SignalValue(in[1].x + in[2].x)
              ELSE SignalUnknown>>
      [] unit.kind = "swap" -> <<in[2], in[1]>>
      [] unit.kind \in {"tag0", "tag1"} -> <<SignalValue(unit.c)>>

\* inner_signal[j][port], with Rust's bounds checks.
ReadInnerSignal(inner_signal, j, port) ==
    IF j >= Len(inner_signal) THEN OutOfBounds
    ELSE IF port >= Len(inner_signal[j + 1]) THEN OutOfBounds
    ELSE Value(inner_signal[j + 1][port + 1])

\* net.rs 420-424 and 432-438: the signal an edge source stands for.
RouteRead(inner_signal, src, in) ==
    CASE src.kind = "Zero" -> Value(SignalValue(0))
      [] src.kind = "Global" -> ReadInput(in, src.port)
      [] src.kind = "Local" -> ReadInnerSignal(inner_signal, src.node, src.port)

\* net.rs 418-425: the input frame of vertex v, or a panic.
RouteGather(inner_signal, v, in) ==
    Gathered([channel \in 1..UnitInputs(v.unit) |->
                 RouteRead(inner_signal, v.source[channel].source, in)])

\* net.rs 426: the unit routes its input frame, unless gathering it panicked.
RouteStore(rs, v, unit_index, r) ==
    IF ~r.ok THEN [rs EXCEPT !.fatal = "index out of bounds"]
    ELSE [rs EXCEPT !.inner_signal[unit_index + 1] = UnitRoute(v.unit, r.x),
                    !.evaluated = Append(@, unit_index)]

\* net.rs 417-427: route the vertices of ord from position k on.
RECURSIVE RouteWalk(_, _, _, _, _)
RouteWalk(rs, vs, ord, k, in) ==
    IF k > Len(ord) \/ rs.fatal # "none" THEN rs
    ELSE RouteWalk(RouteStore(rs, vs[ord[k] + 1], ord[k],
                              RouteGather(rs.inner_signal, vs[ord[k] + 1], in)),
                   vs, ord, k + 1, in)

\* net.rs 413-416: the state of the call once the order is computed; o is
\* the result of determine_order_in.
RouteStart(vs, o) ==
    [inner_signal |-> [i \in 1..Len(vs) |-> new_signal_frame(UnitOutputs(vs[i].unit))],
     evaluated |-> <<>>,
     fatal |-> o.fatal]

\* net.rs 430-439: the output frame, or a panic.
RouteOutputs(net, inner_signal, in) ==
    Gathered([channel \in 1..Outputs(net) |->
                 RouteRead(inner_signal, net.output_edge[channel].source, in)])

\* net.rs 429-440: the outputs are set when the walk did not panic.  route
\* takes &self: the net is as before the call, but for the panic.
RouteFinish(net, rs, in) ==
    CallResult([net |-> Panic(net, rs.fatal), evaluated |-> rs.evaluated],
               IF rs.fatal # "none" THEN OutOfBounds
               ELSE RouteOutputs(net, rs.inner_signal, in),
               TRUE)

\* net.rs 411-440 for the order o computed by determine_order_in.
RouteOrdered(net, o, in) ==
    RouteFinish(net, RouteWalk(RouteStart(net.vertex, o), net.vertex, o.order, 1, in), in)

\* Fault injection for C8: route stores the order it computes in the cache.
RouteStoresOrder(net, in) ==
    RouteOrdered(determine_order(net), determine_order_in(net.vertex), in)

\* route(input, frequency) (net.rs 410-441).
route(net, in) == RouteOrdered(net, determine_order_in(net.vertex), in)

(***************************************************************************)
(* set and get (net.rs 443-456).  evaluated lists the ids of the vertices  *)
(* whose unit the call addressed, in call order.                           *)
(***************************************************************************)
\* net.rs 445: the unit of vertex i (1-based) receives the parameter.
SetVertex(cs, i, parameter, value) ==
    [net |-> [cs.net EXCEPT !.vertex[i].unit = UnitSet(@, parameter, value)],
     evaluated |-> Append(cs.evaluated, i - 1)]

\* net.rs 444-446: the loop over the vertices, from vertex i on.
RECURSIVE SetFrom(_, _, _, _)
SetFrom(cs, i, parameter, value) ==
    IF i > Len(cs.net.vertex) THEN cs
    ELSE SetFrom(SetVertex(cs, i, parameter, value), i + 1, parameter, value)

\* What set returns to the state machine.
SetResult(cs) ==
    [net |-> cs.net, evaluated |-> cs.evaluated, recomputed |-> FALSE, out |-> <<>>]

\* Fault injection for C19: set that starts at the second vertex.
SetSkipsFirst(net, parameter, value) ==
    SetResult(SetFrom([net |-> net, evaluated |-> <<>>], 2, parameter, value))

\* set(parameter, value) (net.rs 443-447).
set(net, parameter, value) ==
    SetResult(SetFrom([net |-> net, evaluated |-> <<>>], 1, parameter, value))

\* Fault injection for C20: the answer of the first vertex asked ends the
\* scan even when it is None.
GetAnswerFirstAsked(net, i, parameter, asked, r) ==
    IF r.ok
    THEN [net |-> net, evaluated |-> asked, recomputed |-> FALSE, out |-> <<r.x>>]
    ELSE [net |-> net, evaluated |-> asked, recomputed |-> FALSE, out |-> <<>>]

\* net.rs 451-453: the answer of vertex i ends the scan when it is Some.
RECURSIVE GetFrom(_, _, _, _)
GetAnswer(net, i, parameter, asked, r) ==
    IF r.ok
    THEN [net |-> net, evaluated |-> asked, recomputed |-> FALSE, out |-> <<r.x>>]
    ELSE GetFrom(net, i + 1, parameter, asked)

\* net.rs 450-455: the scan over the vertices, from vertex i on; out is
\* <<value>> for Some(value) and <<>> for None.
GetFrom(net, i, parameter, asked) ==
    IF i > Len(net.vertex)
    THEN [net |-> net, evaluated |-> asked, recomputed |-> FALSE, out |-> <<>>]
    ELSE GetAnswer(net, i, parameter, Append(asked, i - 1),
                   UnitGet(net.vertex[i].unit, parameter))

\* get(parameter) (net.rs 449-456).
get(net, parameter) == GetFrom(net, 1, parameter, <<>>)

(***************************************************************************)
(* The reference a process call is compared with: size successive tick     *)
(* calls on a copy of the net, sample i of the block being the frame of    *)
(* tick i.                                                                 *)
(***************************************************************************)
\* Frame i of the input blocks.
FrameOf(in, i) == [c \in 1..Len(in) |-> in[c][i]]

\* The frames of the ticks after tick i, whose result is r.  A panic in any
\* tick gives no frames at all.
RECURSIVE TickTimes(_, _, _, _)
TickAfter(r, size, i, in) ==
    IF r.net.fatal # "none" THEN [ok |-> FALSE, x |-> <<>>]
    ELSE IF i = size THEN [ok |-> TRUE, x |-> <<>>]
    ELSE TickTimes(r.net, size, i + 1, in)

\* The frame of tick i before the frames of the later ticks.
TickCons(frame, rest) ==
    IF rest.ok THEN [ok |-> TRUE, x |-> <<frame>> \o rest.x] ELSE rest

\* The frames of ticks i..size, r being the result of tick i.
TickNext(r, size, i, in) == TickCons(r.out, TickAfter(r, size, i, in))

\* The frames of ticks i..size on net.
TickTimes(net, size, i, in) == TickNext(tick(net, FrameOf(in, i)), size, i, in)

\* The frames regrouped per output channel, <<>> if a tick panicked.
Regroup(frames, channels) ==
    IF ~frames.ok THEN <<>>
    ELSE [c \in 1..channels |-> [i \in 1..Len(frames.x) |-> frames.x[i][c]]]

\* The output blocks of size ticks on net.
TickBlocks(net, size, in) == Regroup(TickTimes(net, size, 1, in), Outputs(net))

(***************************************************************************)
(* The state machine.  Every operation is one action; after a panic the    *)
(* program is dead.  last records the operation and what the call          *)
(* observed.  op is "tick", "process", "route", "chain", "pipe",           *)
(* "pipe_input", "pipe_output", or "edit" for add, connect, connect_input, *)
(* connect_output and join; the pipes record their node arguments in in.   *)
(*   recomputed - the call computed an evaluation order                    *)
(*   evaluated  - the ids of the vertices whose unit it invoked, in order  *)
(*   out        - its output, <<>> after a panic                           *)
(*   twin       - for process, the output blocks of as many tick calls on  *)
(*                the net as it was before the call                        *)
(***************************************************************************)
NoCall ==
    [op |-> "new", recomputed |-> FALSE, evaluated |-> <<>>,
     in |-> <<>>, out |-> <<>>, twin |-> <<>>, arg |-> <<>>]

\* args: the node arguments of pipe, pipe_input and pipe_output.
Edit(name, args) == [NoCall EXCEPT !.op = name, !.in = args]

\* An operation whose argument is a unit or an edge, kept apart from the
\* indices and samples of in.
Given(name, x) == [NoCall EXCEPT !.op = name, !.arg = <<x>>]

Called(name, r, in, twin) ==
    [op |-> name, recomputed |-> r.recomputed, evaluated |-> r.evaluated,
     in |-> in, out |-> r.out, twin |-> twin, arg |-> <<>>]

\* The net becomes n and the last operation l.
Becomes(n, l) ==
    /\ input' = n.input
    /\ output' = n.output
    /\ output_edge' = n.output_edge
    /\ vertex' = n.vertex
    /\ order' = n.order
    /\ ordered' = n.ordered
    /\ fatal' = n.fatal
    /\ last' = l
    /\ UNCHANGED <<streamVars, envelopeVars, aliasVars>>

\* Net::new(inputs, outputs) for one of the given arities.
Created(n) ==
    /\ input = n.input
    /\ output = n.output
    /\ output_edge = n.output_edge
    /\ vertex = n.vertex
    /\ order = n.order
    /\ ordered = n.ordered

InitNew(arities) ==
    /\ \E a \in arities : Created(NetNew(a[1], a[2]))
    /\ fatal = "none"
    /\ last = NoCall
    /\ calls = 0
    /\ late = 0
    /\ NoStream
    /\ NoEnvelope
    /\ NoAlias

\* Inputs of the calls: a frame, blocks, and a signal frame over the global
\* inputs.
TickInput(x) == [c \in 1..input |-> x + c - 1]

ProcessInput(size) == [c \in 1..input |-> [i \in 1..MaxBlock |-> i + c - 1]]

RouteInput == [c \in 1..input |-> SignalValue(c)]

\* A tick call with result r.
Ticked(r, in) == Becomes(r.net, Called("tick", r, in, <<>>))

Ticks(in) ==
    /\ fatal = "none"
    /\ calls < MaxCalls
    /\ Ticked(tick(Net, in), in)
    /\ calls' = calls + 1
    /\ UNCHANGED late

\* A process call with result r.
Processed(r, size, in) ==
    Becomes(r.net, Called("process", r, <<size>>, TickBlocks(Net, size, in)))

Processes(size, in) ==
    /\ fatal = "none"
    /\ calls < MaxCalls
    /\ Processed(process(Net, size, in), size, in)
    /\ calls' = calls + 1
    /\ UNCHANGED late

\* A route call with result r.
Routed(r, in) == Becomes(r.net, Called("route", r, in, <<>>))

Routes(in) ==
    /\ fatal = "none"
    /\ last.op # "route"
    /\ Routed(route(Net, in), in)
    /\ UNCHANGED <<calls, late>>

(***************************************************************************)
(* Spec: every operation, with arguments in and out of range, on nets of   *)
(* at most MaxVertices vertices.                                           *)
(***************************************************************************)
\* Number of edge slots wired to something else than Zero.
RECURSIVE WiredFrom(_, _)
WiredFrom(edges, k) ==
    IF k > Len(edges) THEN 0
    ELSE (IF edges[k].source.kind = "Zero" THEN 0 ELSE 1) + WiredFrom(edges, k + 1)

Wired(net) == WiredFrom(all_edges(net.vertex) \o net.output_edge, 1)

\* Arguments: node ids up to one past the last vertex, ports and global
\* channels 0 and 1, and edges between such ports.
NodeArgs == 0..Len(vertex)

PortArgs == 0..1

GlobalArgs == 0..1

JoinArgs ==
    {edge(src, dst) : src \in {Zero, Global(0), Local(0, 0)},
                      dst \in {Zero, Global(0), Global(1), Local(0, 0), Local(1, 0)}}

\* An editing operation that turns the net into n.  Edits are made while
\* building the net and, at most MaxLate times, between calls.
Edits(n, name, args) ==
    /\ fatal = "none"
    /\ calls = 0 \/ (late < MaxLate /\ calls < MaxCalls)
    /\ Wired(n) <= MaxWired
    /\ Becomes(n, Edit(name, args))
    /\ late' = IF calls = 0 THEN late ELSE late + 1
    /\ UNCHANGED calls

Init == InitNew({<<1, 1>>, <<2, 2>>})

Add ==
    /\ Len(vertex) < MaxVertices
    /\ \E unit \in Units : Edits(add(Net, unit), "edit", <<>>)

Connect ==
    \E source \in NodeArgs, source_port \in PortArgs,
       target \in NodeArgs, target_port \in PortArgs :
        Edits(connect(Net, source, source_port, target, target_port), "edit", <<>>)

ConnectInput ==
    \E global_input \in GlobalArgs, target \in NodeArgs, target_port \in PortArgs :
        Edits(connect_input(Net, global_input, target, target_port), "edit", <<>>)

PipeInput ==
    \E target \in NodeArgs : Edits(pipe_input(Net, target), "pipe_input", <<target>>)

ConnectOutput ==
    \E source \in NodeArgs, source_port \in PortArgs, global_output \in GlobalArgs :
        Edits(connect_output(Net, source, source_port, global_output), "edit", <<>>)

PipeOutput ==
    \E source \in NodeArgs : Edits(pipe_output(Net, source), "pipe_output", <<source>>)

Join == \E e \in JoinArgs : Edits(join(Net, e), "edit", <<>>)

Pipe ==
    \E source \in NodeArgs, target \in NodeArgs :
        Edits(pipe(Net, source, target), "pipe", <<source, target>>)

Chain ==
    /\ Len(vertex) < MaxVertices
    /\ \E unit \in Units : Edits(chain(Net, unit), "chain", <<>>)

Tick == Ticks(TickInput(1))

Process == \E size \in 1..MaxBlock : Processes(size, ProcessInput(size))

Route == Routes(RouteInput)

Next ==
    \/ Add
    \/ Connect
    \/ ConnectInput
    \/ PipeInput
    \/ ConnectOutput
    \/ PipeOutput
    \/ Join
    \/ Pipe
    \/ Chain
    \/ Tick
    \/ Process
    \/ Route

Spec == Init /\ [][Next]_vars

(***************************************************************************)
(* SpecOrder: graphs of up to MaxOrderVertices vertices wired with         *)
(* in-range arguments, then one tick, process or route call.               *)
(***************************************************************************)
Existing == 0..(Len(vertex) - 1)

OrderUnits == {Unit("dc", 2), Unit("pass", 0), Unit("sum", 0)}

Slots(net) == Len(all_edges(net.vertex))

\* An editing operation of the building phase that turns the net into n.
Builds(n) ==
    /\ fatal = "none"
    /\ calls = 0
    /\ last.op # "route"
    /\ Slots(n) <= MaxOrderSlots
    /\ Becomes(n, Edit("edit", <<>>))
    /\ UNCHANGED <<calls, late>>

InitOrder == InitNew({<<1, 1>>})

AddOrder ==
    /\ Len(vertex) < MaxOrderVertices
    /\ \E unit \in OrderUnits : Builds(add(Net, unit))

ConnectOrder ==
    \E source \in Existing, target \in Existing, target_port \in PortArgs :
        /\ target_port < VertexInputs(vertex[target + 1])
        /\ Builds(connect(Net, source, 0, target, target_port))

PipeOutputOrder == \E source \in Existing : Builds(pipe_output(Net, source))

TickOrder ==
    /\ calls = 0
    /\ last.op # "route"
    /\ Ticks(TickInput(1))

ProcessOrder ==
    /\ calls = 0
    /\ last.op # "route"
    /\ Processes(MaxBlock, ProcessInput(MaxBlock))

RouteOrder ==
    /\ calls = 0
    /\ Routes(RouteInput)

NextOrder ==
    \/ AddOrder
    \/ ConnectOrder
    \/ PipeOutputOrder
    \/ TickOrder
    \/ ProcessOrder
    \/ RouteOrder

SpecOrder == InitOrder /\ [][NextOrder]_vars

(***************************************************************************)
(* SpecChain: nets of up to MaxChainVertices vertices built with add,      *)
(* chain and the pipes on existing vertices, then one tick call.  last     *)
(* records the name and the arguments of every operation.                  *)
(***************************************************************************)
ChainUnits == {Unit("pass", 0), Unit("swap", 0), Unit("sum", 0)}

\* An editing operation of the building phase that turns the net into n.
ChainBuilds(n, l) ==
    /\ fatal = "none"
    /\ calls = 0
    /\ Becomes(n, l)
    /\ UNCHANGED <<calls, late>>

InitChain == InitNew({<<1, 1>>, <<2, 1>>, <<2, 2>>})

AddChain ==
    /\ Len(vertex) < MaxChainVertices
    /\ \E unit \in ChainUnits : ChainBuilds(add(Net, unit), Given("add", unit))

ChainChain ==
    /\ Len(vertex) < MaxChainVertices
    /\ \E unit \in ChainUnits : ChainBuilds(chain(Net, unit), Given("chain", unit))

PipeInputChain ==
    \E target \in Existing : ChainBuilds(pipe_input(Net, target), Edit("pipe_input", <<target>>))

PipeChain ==
    \E source \in Existing, target \in Existing :
        ChainBuilds(pipe(Net, source, target), Edit("pipe", <<source, target>>))

PipeOutputChain ==
    \E source \in Existing :
        ChainBuilds(pipe_output(Net, source), Edit("pipe_output", <<source>>))

TickChain ==
    /\ calls = 0
    /\ Ticks(TickInput(1))

NextChain ==
    \/ AddChain
    \/ ChainChain
    \/ PipeInputChain
    \/ PipeChain
    \/ PipeOutputChain
    \/ TickChain

SpecChain == InitChain /\ [][NextChain]_vars

(***************************************************************************)
(* SpecEdit: nets of up to MaxEditVertices vertices edited with arguments  *)
(* in and out of range, with set and get calls at any time and one tick    *)
(* call.  last records the name and the arguments of every operation.      *)
(***************************************************************************)
EditUnits ==
    {Unit("tag0", 2), Unit("tag0", 3), Unit("tag1", 4), Unit("sum", 0)}

\* Parameter tags and the value set passes.
TagArgs == 0..1

ValueArgs == {5}

JoinEditArgs ==
    {edge(src, dst) :
        src \in {Zero, Global(0), Local(0, 0), Local(1, 0)},
        dst \in {Zero, Global(0), Global(1), Global(2),
                 Local(0, 0), Local(0, 1), Local(1, 0), Local(2, 0)}}

\* An editing operation of the building phase, which precedes the set, get and
\* tick calls, that turns the net into n.
Building == last.op \notin {"set", "get", "tick"}

EditBuilds(n, l) ==
    /\ fatal = "none"
    /\ Building
    /\ Wired(n) <= MaxEditWired
    /\ Becomes(n, l)
    /\ UNCHANGED <<calls, late>>

\* A set or get call with result r.
Asked(r, name, args) ==
    /\ fatal = "none"
    /\ Becomes(r.net, Called(name, r, args, <<>>))
    /\ UNCHANGED <<calls, late>>

InitEdit == InitNew({<<1, 1>>, <<1, 2>>})

AddEdit ==
    /\ Len(vertex) < MaxEditVertices
    /\ \E unit \in EditUnits : EditBuilds(add(Net, unit), Given("add", unit))

ConnectEdit ==
    \E source \in NodeArgs, source_port \in {0},
       target \in NodeArgs, target_port \in PortArgs :
        EditBuilds(connect(Net, source, source_port, target, target_port),
                   Edit("connect", <<source, source_port, target, target_port>>))

ConnectInputEdit ==
    \E global_input \in GlobalArgs, target \in NodeArgs, target_port \in PortArgs :
        EditBuilds(connect_input(Net, global_input, target, target_port),
                   Edit("connect_input", <<global_input, target, target_port>>))

ConnectOutputEdit ==
    \E source \in NodeArgs, source_port \in {0}, global_output \in 0..2 :
        EditBuilds(connect_output(Net, source, source_port, global_output),
                   Edit("connect_output", <<source, source_port, global_output>>))

PipeOutputEdit ==
    \E source \in NodeArgs :
        EditBuilds(pipe_output(Net, source), Edit("pipe_output", <<source>>))

JoinEdit == \E e \in JoinEditArgs : EditBuilds(join(Net, e), Given("join", e))

SetEdit ==
    \E parameter \in TagArgs, value \in ValueArgs :
        Asked(set(Net, parameter, value), "set", <<parameter, value>>)

GetEdit == \E parameter \in TagArgs : Asked(get(Net, parameter), "get", <<parameter>>)

TickEdit ==
    /\ calls = 0
    /\ Ticks(TickInput(1))

NextEdit ==
    \/ AddEdit
    \/ ConnectEdit
    \/ ConnectInputEdit
    \/ ConnectOutputEdit
    \/ PipeOutputEdit
    \/ JoinEdit
    \/ SetEdit
    \/ GetEdit
    \/ TickEdit

SpecEdit == InitEdit /\ [][NextEdit]_vars

(***************************************************************************)
(* Vocabulary of the properties.                                           *)
(***************************************************************************)
\* The step is a tick or process call / a route call / any of the three.
TickOrProcessStep == calls' = calls + 1

RouteStep == last'.op = "route"

CallStep == TickOrProcessStep \/ RouteStep

Ids == 0..(Len(vertex) - 1)

\* The incoming edges of the vertices whose source is a Local port.
LocalEdges ==
    {e \in {all_edges(vertex)[k] : k \in 1..Len(all_edges(vertex))} :
        e.source.kind = "Local"}

\* <<s, t>> for every edge Local(s, _) -> Local(t, _).
LocalPairs == {<<e.source.node, e.target.node>> : e \in LocalEdges}

\* The pairs joined by a path of at most k Local -> Local edges.
RECURSIVE PathPairs(_)
PathPairs(k) ==
    IF k <= 1 THEN LocalPairs
    ELSE LET shorter == PathPairs(k - 1)
         IN shorter \cup {<<pq[1][1], pq[2][2]>> :
                            pq \in {x \in shorter \X LocalPairs : x[1][2] = x[2][1]}}

\* The graph has a directed cycle made of Local -> Local edges.
HasCycle == \E v \in Ids : <<v, v>> \in PathPairs(Len(vertex))

\* The position of id v in the sequence ord, 0 if it is not in it.
Position(ord, v) ==
    IF \E k \in 1..Len(ord) : ord[k] = v
    THEN CHOOSE k \in 1..Len(ord) : ord[k] = v
    ELSE 0

\* ord is a permutation of the vertex ids.
IsPermutation(ord) ==
    /\ Len(ord) = Len(vertex)
    /\ \A v \in Ids : \E k \in 1..Len(ord) : ord[k] = v

\* ord puts s before t for every edge Local(s, _) -> Local(t, _).
RespectsEdges(ord) ==
    \A p \in LocalPairs : Position(ord, p[1]) < Position(ord, p[2])

(***************************************************************************)
(* Properties of order determination and of the values read (SpecOrder).   *)
(***************************************************************************)
\* The order the call of this step computed: the cached order for tick and
\* process, the walk of the call for route.
ComputedOrder == IF last.op = "route" THEN last.evaluated ELSE order

\* C1: for every acyclic graph, order determination yields a permutation of
\* all vertex ids in which s appears before t for every edge
\* Local(s, _) -> Local(t, _).
C1_OrderIsTopological ==
    [][(CallStep /\ ~HasCycle) =>
          /\ fatal' = "none"
          /\ IsPermutation(ComputedOrder')
          /\ RespectsEdges(ComputedOrder')]_vars

\* C2: on every graph with a directed cycle of Local -> Local edges, a call
\* fails with "Cycle detected." and invokes no unit.
C2_CycleIsFatal ==
    [][(CallStep /\ HasCycle) =>
          /\ fatal' = "Cycle detected."
          /\ last'.evaluated = <<>>]_vars

\* C3: a process call of N samples that does not fail yields, per output
\* channel, the N samples that N tick calls yield on an identical net.
\* Stated for the acyclic graphs, on which no cycle can be blamed for a
\* difference.
C3_TickTimesEqualsProcess ==
    (last.op = "process" /\ fatal = "none" /\ ~HasCycle) => last.out = last.twin

\* C4: after a tick or process call, every vertex input wired to
\* Local(s, p) holds the value vertex s computed at port p in this call.
\* Stated for the acyclic graphs, on which every vertex can be evaluated
\* after its sources.
C4_LocalReadsAreCurrent ==
    (last.op \in {"tick", "process"} /\ fatal = "none" /\ ~HasCycle) =>
        \A e \in LocalEdges :
            IF last.op = "tick"
            THEN vertex[e.target.node + 1].tick_input[e.target.port + 1]
                     = vertex[e.source.node + 1].tick_output[e.source.port + 1]
            ELSE vertex[e.target.node + 1].input[e.target.port + 1]
                     = vertex[e.source.node + 1].output[e.source.port + 1]

(***************************************************************************)
(* Properties of the operations (Spec).                                    *)
(***************************************************************************)
\* The edges of the graph: the incoming edges of the vertices and the
\* sources of the global outputs.
GraphEdges ==
    {all_edges(vertex)[k] : k \in 1..Len(all_edges(vertex))}
        \cup {output_edge[c] : c \in 1..Len(output_edge)}

\* Port src names no existing vertex output or global input.
OutOfRange(src) ==
    CASE src.kind = "Zero" -> FALSE
      [] src.kind = "Global" -> src.port >= input
      [] src.kind = "Local" ->
            \/ src.node >= Len(vertex)
            \/ src.port >= VertexOutputs(vertex[src.node + 1])

HasOutOfRangeEdge == \E e \in GraphEdges : OutOfRange(e.source)

\* The samples a call touched: one per channel for tick, the first size of
\* each block for process.
Touched(x) == IF last.op = "tick" THEN {x} ELSE {x[i] : i \in 1..last.in[1]}

\* C5: after a tick or process call, every vertex input and every network
\* output whose edge source is Zero has read exactly 0 on every sample of
\* the call.
C5_ZeroReadsZero ==
    (last.op \in {"tick", "process"} /\ fatal = "none") =>
        /\ \A k \in 1..Len(vertex) : \A ch \in 1..Len(vertex[k].source) :
              vertex[k].source[ch].source.kind = "Zero" =>
                  Touched(IF last.op = "tick" THEN vertex[k].tick_input[ch]
                          ELSE vertex[k].input[ch]) = {0}
        /\ \A c \in 1..output :
              output_edge[c].source.kind = "Zero" => Touched(last.out[c]) = {0}

\* A process call of one sample zeroed an input wired to Zero whose block
\* still holds, past the first sample, what an earlier call had read.
C5_Witness ==
    /\ last.op = "process"
    /\ last.in = <<1>>
    /\ fatal = "none"
    /\ \E k \in 1..Len(vertex) : \E ch \in 1..Len(vertex[k].source) :
          /\ vertex[k].source[ch].source.kind = "Zero"
          /\ vertex[k].input[ch][1] = 0
          /\ vertex[k].input[ch][MaxBlock] # 0

EditOps == {"edit", "chain", "pipe", "pipe_input", "pipe_output"}

\* C6: every editing operation that completes leaves the order cache
\* marked invalid.
C6_EditsInvalidate == (last.op \in EditOps /\ fatal = "none") => ~ordered

\* chain completed after a call had left the cache valid.
C6_Witness == last.op = "chain" /\ fatal = "none" /\ late = 1 /\ ~ordered

\* s is an initial part of t.
IsPrefix(s, t) == Len(s) <= Len(t) /\ s = SubSeq(t, 1, Len(s))

\* C7: a tick or process call made while the cache is invalid computes the
\* order, stores it, marks the cache valid and walks the new order; a call
\* made while the cache is valid leaves the cached order as it is and
\* walks it.
C7_LazyOrderCache ==
    [][TickOrProcessStep =>
          /\ ordered'
          /\ IsPrefix(last'.evaluated, order')
          /\ fatal' = "none" => last'.evaluated = order'
          /\ IF ordered
             THEN order' = order /\ ~last'.recomputed
             ELSE determine_order_in(vertex).fatal = "none" =>
                      order' = determine_order_in(vertex).order /\ last'.recomputed]_vars

\* A second call walked the two-vertex order the first call had cached.
C7_Witness ==
    /\ calls = MaxCalls
    /\ late = 0
    /\ fatal = "none"
    /\ ~last.recomputed
    /\ last.evaluated = order
    /\ Len(order) = MaxVertices

\* C8: a route call leaves the cached order, its validity, all edge tables
\* and all vertices unchanged.
C8_RouteIsReadOnly ==
    [][RouteStep => UNCHANGED <<input, output, output_edge, vertex, order, ordered>>]_vars

\* route walked an order of its own while the cache was invalid.
C8_Witness ==
    /\ last.op = "route"
    /\ fatal = "none"
    /\ ~ordered
    /\ Len(last.evaluated) = MaxVertices
    /\ last.evaluated # order

\* C9: an edit called with an out-of-range index fails at that call, so no
\* tick, process or route call evaluates a unit on a graph that holds an
\* out-of-range edge.
C9_NoEvaluationOnOutOfRangeEdge ==
    [][(CallStep /\ HasOutOfRangeEdge) => last'.evaluated = <<>>]_vars

\* The incoming edges pipe(s, t) wires: output i of s to input i of t.
PipedSources(s, t) ==
    [i \in 1..VertexInputs(vertex[t + 1]) |-> edge(Local(s, i - 1), Local(t, i - 1))]

\* The incoming edges pipe_input(t) wires: global input i to input i of t.
PipedInputs(t) == [i \in 1..input |-> edge(Global(i - 1), Local(t, i - 1))]

\* The output edges pipe_output(s) wires: output i of s to global output i.
PipedOutputs(s) == [i \in 1..output |-> edge(Local(s, i - 1), Global(i - 1))]

\* The step fails its assertion and modifies no edge.
FailsUnmodified == fatal' = "assertion failed" /\ UNCHANGED <<vertex, output_edge>>

\* C10: pipe, pipe_input and pipe_output called on existing vertices fail
\* on an arity mismatch before modifying any edge; when the arities match
\* they wire port i to port i for every i and change no other edge.
C10_PipesCheckArity ==
    [][/\ (last'.op = "pipe" /\ last'.in[1] < Len(vertex) /\ last'.in[2] < Len(vertex)) =>
              IF VertexOutputs(vertex[last'.in[1] + 1]) # VertexInputs(vertex[last'.in[2] + 1])
              THEN FailsUnmodified
              ELSE /\ fatal' = "none"
                   /\ output_edge' = output_edge
                   /\ vertex' = [vertex EXCEPT ![last'.in[2] + 1].source =
                                                   PipedSources(last'.in[1], last'.in[2])]
       /\ (last'.op = "pipe_input" /\ last'.in[1] < Len(vertex)) =>
              IF VertexInputs(vertex[last'.in[1] + 1]) # input
              THEN FailsUnmodified
              ELSE /\ fatal' = "none"
                   /\ output_edge' = output_edge
                   /\ vertex' = [vertex EXCEPT ![last'.in[1] + 1].source =
                                                   PipedInputs(last'.in[1])]
       /\ (last'.op = "pipe_output" /\ last'.in[1] < Len(vertex)) =>
              IF VertexOutputs(vertex[last'.in[1] + 1]) # output
              THEN FailsUnmodified
              ELSE /\ fatal' = "none"
                   /\ vertex' = vertex
                   /\ output_edge' = PipedOutputs(last'.in[1])]_vars

\* pipe has wired the two outputs of vertex 0 to the two inputs of vertex 1.
C10_Witness ==
    /\ last.op = "pipe"
    /\ last.in = <<0, 1>>
    /\ fatal = "none"
    /\ Len(vertex) = MaxVertices
    /\ Len(vertex[2].source) = 2
    /\ \A i \in 1..2 : vertex[2].source[i] = edge(Local(0, i - 1), Local(1, i - 1))

(***************************************************************************)
(* Properties of chain and pipe (SpecChain).                               *)
(***************************************************************************)
\* The unit chain was called with in this step, and the id it gives it.
ChainUnit == last'.arg[1]

ChainId == Len(vertex)

\* The precondition chain asserts itself (net.rs 307).
ChainAsserted ==
    /\ UnitInputs(ChainUnit) = UnitOutputs(ChainUnit)
    /\ output = UnitOutputs(ChainUnit)

\* The precondition the pipe chain ends with asserts (net.rs 253, 297): the
\* inputs of the unit match the outputs of the vertex with the previous id
\* or, in an empty net, the global inputs.
ChainFits ==
    IF ChainId > 0
    THEN VertexOutputs(vertex[ChainId]) = UnitInputs(ChainUnit)
    ELSE input = UnitInputs(ChainUnit)

\* The incoming edges chain gives the vertex it adds.
ChainedSources ==
    [i \in 1..UnitInputs(ChainUnit) |->
        IF ChainId > 0
        THEN edge(Local(ChainId - 1, i - 1), Local(ChainId, i - 1))
        ELSE edge(Global(i - 1), Local(ChainId, i - 1))]

\* The step succeeds and has the effect of chain: the unit is added with
\* the next id, every network output is sourced from it, and its inputs are
\* wired from the previous vertex or from the global inputs.
ChainSucceeds ==
    /\ fatal' = "none"
    /\ Len(vertex') = Len(vertex) + 1
    /\ SubSeq(vertex', 1, Len(vertex)) = vertex
    /\ vertex'[ChainId + 1].unit = ChainUnit
    /\ vertex'[ChainId + 1].id = ChainId
    /\ vertex'[ChainId + 1].source = ChainedSources
    /\ output_edge' = PipedOutputs(ChainId)

\* C11 as stated: chain(unit) succeeds whenever unit.inputs() ==
\* unit.outputs() == network.outputs(), adding the unit and wiring it.
C11_ChainSucceedsAsStated ==
    [][(last'.op = "chain" /\ ChainAsserted) => ChainSucceeds]_vars

\* C11 amended: chain(unit) succeeds whenever unit.inputs() ==
\* unit.outputs() == network.outputs() and the inputs of the unit match
\* the outputs of the vertex with the previous id (the global inputs when
\* the net is empty); it then adds the unit with the next id, sources every
\* network output from it and wires its inputs from the previous vertex or
\* from the global inputs.
C11_ChainSucceedsWhenItFits ==
    [][(last'.op = "chain" /\ ChainAsserted /\ ChainFits) => ChainSucceeds]_vars

\* chain has added a third two-channel vertex behind two others.
C11_Witness ==
    /\ last.op = "chain"
    /\ fatal = "none"
    /\ Len(vertex) = MaxChainVertices
    /\ last.arg[1].kind = "swap"
    /\ vertex[Len(vertex)].source[2] = edge(Local(Len(vertex) - 2, 1), Local(Len(vertex) - 1, 1))
    /\ output_edge[2] = edge(Local(Len(vertex) - 1, 1), Global(1))

\* Net::new(inputs, outputs) with the arity of the net.
FreshNet ==
    [f \in DOMAIN Net |-> IF f = "fatal" THEN "none" ELSE NetNew(input, output)[f]]

\* Every input p of vertex k connected by hand, from port p on: from
\* vertex k - 1 with connect, or from the global inputs for the first vertex.
RECURSIVE ConnectPorts(_, _, _)
ConnectPorts(net, k, p) ==
    IF p >= VertexInputs(net.vertex[k + 1]) THEN net
    ELSE ConnectPorts(IF k = 0 THEN connect_input(net, p, k, p)
                      ELSE connect(net, k - 1, p, k, p),
                      k, p + 1)

\* The units us added and connected by hand, in increasing id order, from
\* unit k on.
RECURSIVE ManualFrom(_, _, _)
ManualFrom(net, us, k) ==
    IF k > Len(us) THEN net
    ELSE ManualFrom(ConnectPorts(add(net, us[k]), k - 1, 0), us, k + 1)

\* The net built by hand from the units us, the last piped to the outputs.
ManualNet(us) ==
    IF us = <<>> THEN FreshNet
    ELSE pipe_output(ManualFrom(FreshNet, us, 1), Len(us) - 1)

UnitsOf(vs) == [i \in 1..Len(vs) |-> vs[i].unit]

\* C12: a net built by chain calls alone equals the net built by hand from
\* the same units with add, connect_input, connect and pipe_output: the
\* empty net is both, and a chain call that succeeds on a net equal to the
\* hand-built one leaves a net equal to the hand-built one with the unit
\* appended.
C12_ChainEqualsManual ==
    [][(last'.op = "chain" /\ fatal' = "none" /\ Net = ManualNet(UnitsOf(vertex))) =>
          Net' = ManualNet(UnitsOf(vertex'))]_vars

\* Three chain calls have built a net of two-channel units that equals the
\* hand-built one.
C12_Witness ==
    /\ last.op = "chain"
    /\ fatal = "none"
    /\ Len(vertex) = MaxChainVertices
    /\ output = 2
    /\ Net = ManualNet(UnitsOf(vertex))

\* Vertex a is piped from the global inputs, vertex b from a, and the
\* outputs from b, and the net holds no other vertex.
IsPipedPair(a, b) ==
    /\ Len(vertex) = 2
    /\ a # b
    /\ vertex[a + 1].source = PipedInputs(a)
    /\ VertexOutputs(vertex[a + 1]) = VertexInputs(vertex[b + 1])
    /\ vertex[b + 1].source = PipedSources(a, b)
    /\ output_edge = PipedOutputs(b)

\* C13: a tick of a net in which A is piped from the global inputs, B from
\* A and the outputs from B yields B(A(input)).
C13_PipeComposes ==
    (last.op = "tick" /\ fatal = "none") =>
        \A a \in Ids : \A b \in Ids :
            IsPipedPair(a, b) =>
                last.out = UnitTick(vertex[b + 1].unit, UnitTick(vertex[a + 1].unit, last.in))

\* A tick ran two swaps piped one into the other, the second added first.
C13_Witness ==
    /\ last.op = "tick"
    /\ fatal = "none"
    /\ IsPipedPair(1, 0)
    /\ vertex[1].unit.kind = "swap"
    /\ vertex[2].unit.kind = "swap"
    /\ last.out = last.in

(***************************************************************************)
(* Properties of the vertices (Spec).                                      *)
(***************************************************************************)
\* C14: add gives the new vertex the id Len(vertex), the number of add
\* calls made before it, and after every operation the vertex stored at
\* index i has id i: no vertex is removed or renumbered.
C14_IdsAreIndices ==
    [][/\ Len(vertex') \in {Len(vertex), Len(vertex) + 1}
       /\ \A i \in 1..Len(vertex') : vertex'[i].id = i - 1]_vars

\* A tick has panicked and left its placeholder in place of vertex 1.
C14_Witness ==
    /\ last.op = "tick"
    /\ fatal = "index out of bounds"
    /\ Len(vertex) = MaxVertices
    /\ vertex[2].source = <<>>
    /\ vertex[2].id = 1
    /\ last.evaluated = <<0>>

\* C16: between operations every vertex has as many incoming-edge slots as
\* its unit declares inputs and as it has input buffers, the number never
\* changes, and right after add every slot of the new vertex has source
\* Zero.
C16_SlotsMatchInputs ==
    [][fatal' = "none" =>
          /\ \A i \in 1..Len(vertex') :
                /\ Len(vertex'[i].source) = UnitInputs(vertex'[i].unit)
                /\ Len(vertex'[i].source) = VertexInputs(vertex'[i])
          /\ \A i \in 1..Len(vertex) :
                /\ Len(vertex'[i].source) = Len(vertex[i].source)
                /\ vertex'[i].unit = vertex[i].unit
          /\ (last'.op = "edit" /\ Len(vertex') = Len(vertex) + 1) =>
                \A ch \in 1..Len(vertex'[Len(vertex')].source) :
                    vertex'[Len(vertex')].source[ch].source = Zero]_vars

\* add has put a two-input vertex, all slots Zero, behind a wired vertex
\* after a call had cached the order of the first.
C16_Witness ==
    /\ last.op = "edit"
    /\ fatal = "none"
    /\ late = 1
    /\ Len(order) = 1
    /\ Len(vertex) = MaxVertices
    /\ Len(vertex[2].source) = 2
    /\ \A ch \in 1..2 : vertex[2].source[ch].source = Zero
    /\ vertex[1].source # <<>>
    /\ vertex[1].source[1].source # Zero

(***************************************************************************)
(* Claims about the effect of single operations, checked under SpecEdit,   *)
(* where last'.op names the operation of a step, last'.in its index         *)
(* arguments and last'.arg its unit or edge.                               *)
(***************************************************************************)
\* The operation of the step stores an edge for network output c (1-based).
OutputWiredBy(c) ==
    \/ last'.op = "connect_output" /\ last'.in[3] = c - 1
    \/ last'.op = "pipe_output"
    \/ last'.op = "join" /\ last'.arg[1].target = Global(c - 1)

\* C15: the arity of the net never changes, the output-edge table always has
\* outputs() entries, a new net has every output sourced from Zero, an
\* output's edge changes only in an operation that wires that output, and a
\* tick reads 0 from every output whose source is Zero.
C15_OutputsSilentUntilWired ==
    [][/\ input' = input
       /\ output' = output
       /\ Len(output_edge') = output'
       /\ last.op = "new" =>
             \A c \in 1..output : output_edge[c] = edge(Zero, Global(c - 1))
       /\ \A c \in 1..output : output_edge'[c] # output_edge[c] => OutputWiredBy(c)
       /\ (last'.op = "tick" /\ fatal' = "none") =>
             \A c \in 1..output : output_edge'[c].source = Zero => last'.out[c] = 0]_vars

\* A tick of a net with two outputs of which only the first was wired.
C15_Witness ==
    /\ last.op = "tick"
    /\ fatal = "none"
    /\ output = 2
    /\ output_edge[1].source = Local(0, 0)
    /\ output_edge[2] = edge(Zero, Global(1))
    /\ last.out[1] # 0
    /\ last.out[2] = 0

\* C17: connect(s, sp, t, tp) with an existing slot tp of an existing vertex
\* t stores the edge Local(s, sp) -> Local(t, tp) in that slot and leaves
\* every other slot, every vertex, the output-edge table and the arity as
\* they were.
C17_ConnectReplacesOneSlot ==
    [][(/\ last'.op = "connect"
        /\ last'.in[3] < Len(vertex)
        /\ last'.in[4] < Len(vertex[last'.in[3] + 1].source)) =>
          /\ fatal' = "none"
          /\ vertex' = [vertex EXCEPT ![last'.in[3] + 1].source[last'.in[4] + 1] =
                            edge(Local(last'.in[1], last'.in[2]),
                                 Local(last'.in[3], last'.in[4]))]
          /\ UNCHANGED <<input, output, output_edge>>]_vars

\* connect has overwritten slot 1 of vertex 1, whose slot 0 keeps the network
\* input it was wired to.
C17_Witness ==
    /\ last.op = "connect"
    /\ fatal = "none"
    /\ last.in = <<0, 0, 1, 1>>
    /\ Len(vertex) = 2
    /\ vertex[2].source[2] = edge(Local(0, 0), Local(1, 1))
    /\ vertex[2].source[1] = edge(Global(0), Local(1, 0))

\* C18: join(e) stores e in slot tp of vertex t when e.target is Local(t, tp)
\* and in entry o of the output-edge table when e.target is Global(o), and
\* leaves the net, a panic included, as connect, connect_input or
\* connect_output with the parts of e as arguments does.
C18_JoinRoutesByTarget ==
    [][last'.op = "join" =>
          /\ (/\ last'.arg[1].target.kind = "Local"
              /\ last'.arg[1].target.node < Len(vertex)
              /\ last'.arg[1].target.port <
                     Len(vertex[last'.arg[1].target.node + 1].source)) =>
                /\ fatal' = "none"
                /\ vertex' = [vertex EXCEPT ![last'.arg[1].target.node + 1]
                                  .source[last'.arg[1].target.port + 1] = last'.arg[1]]
                /\ output_edge' = output_edge
          /\ (/\ last'.arg[1].target.kind = "Global"
              /\ last'.arg[1].target.port < output) =>
                /\ fatal' = "none"
                /\ output_edge' =
                       [output_edge EXCEPT ![last'.arg[1].target.port + 1] = last'.arg[1]]
                /\ vertex' = vertex
          /\ (last'.arg[1].source.kind = "Local" /\ last'.arg[1].target.kind = "Local") =>
                Net' = connect(Net, last'.arg[1].source.node, last'.arg[1].source.port,
                               last'.arg[1].target.node, last'.arg[1].target.port)
          /\ (last'.arg[1].source.kind = "Global" /\ last'.arg[1].target.kind = "Local") =>
                Net' = connect_input(Net, last'.arg[1].source.port,
                                     last'.arg[1].target.node, last'.arg[1].target.port)
          /\ (last'.arg[1].source.kind = "Local" /\ last'.arg[1].target.kind = "Global") =>
                Net' = connect_output(Net, last'.arg[1].source.node,
                                      last'.arg[1].source.port,
                                      last'.arg[1].target.port)]_vars

\* join has stored an edge from vertex 0 in the entry of network output 1.
C18_Witness ==
    /\ last.op = "join"
    /\ fatal = "none"
    /\ last.arg = <<edge(Local(0, 0), Global(1))>>
    /\ output = 2
    /\ output_edge[2] = edge(Local(0, 0), Global(1))
    /\ output_edge[1] = edge(Zero, Global(0))

\* C19: set(tag, value) passes the parameter to the unit of every vertex,
\* once each and in the order of the ids, whether or not the unit has the
\* parameter, and changes nothing else of the net.
C19_SetReachesEveryUnit ==
    [][last'.op = "set" =>
          /\ last'.evaluated = [i \in 1..Len(vertex) |-> i - 1]
          /\ vertex' = [i \in 1..Len(vertex) |->
                           [vertex[i] EXCEPT
                               !.unit = UnitSet(@, last'.in[1], last'.in[2])]]
          /\ UNCHANGED <<input, output, output_edge, order, ordered, fatal>>]_vars

\* set(0, 5) has reached a unit without parameter 0 and then one with it.
C19_Witness ==
    /\ last.op = "set"
    /\ last.in = <<0, 5>>
    /\ last.evaluated = <<0, 1>>
    /\ Len(vertex) = 2
    /\ vertex[1].unit = Unit("tag1", 4)
    /\ vertex[2].unit = Unit("tag0", 5)

\* The tag the get call of the step asks for.
GetTag == last'.in[1]

\* The unit of vertex i (1-based) answers the get call of the step.
Answers(i) == UnitGet(vertex[i].unit, GetTag).ok

\* C20: get(tag) returns the answer of the lowest-id vertex whose unit
\* answers, returns absent exactly when no unit answers, and changes no
\* state of the net.
C20_GetFirstAnswer ==
    [][last'.op = "get" =>
          /\ \A i \in 1..Len(vertex) :
                (Answers(i) /\ \A j \in 1..(i - 1) : ~Answers(j)) =>
                    last'.out = <<UnitGet(vertex[i].unit, GetTag).x>>
          /\ (last'.out = <<>>) <=> (\A i \in 1..Len(vertex) : ~Answers(i))
          /\ UNCHANGED <<input, output, output_edge, vertex, order, ordered,
                         fatal>>]_vars

\* get(0) has returned the answer of vertex 0 although vertex 1 answers too,
\* with another value.
C20_Witness ==
    /\ last.op = "get"
    /\ last.in = <<0>>
    /\ Len(vertex) = 2
    /\ vertex[1].unit = Unit("tag0", 3)
    /\ vertex[2].unit = Unit("tag0", 2)
    /\ last.out = <<3>>

(***************************************************************************)
(* Properties of order determination and of the calls, continued           *)
(* (SpecOrder).                                                            *)
(***************************************************************************)
\* The vertices form a ring: every input of vertex i is fed by vertex i - 1,
\* and every input of vertex 0 by the last vertex.
IsRing ==
    /\ Len(vertex) >= 1
    /\ \A i \in 1..Len(vertex) :
          /\ vertex[i].source # <<>>
          /\ \A ch \in 1..Len(vertex[i].source) :
                /\ vertex[i].source[ch].source.kind = "Local"
                /\ vertex[i].source[ch].source.node = (i - 2) % Len(vertex)

\* C21: on a net whose vertices form a ring, tick, process and route each
\* end with the panic "Cycle detected." and invoke no unit.
C21_RingIsFatal ==
    [][(CallStep /\ IsRing) =>
          /\ fatal' = "Cycle detected."
          /\ last'.evaluated = <<>>]_vars

\* route has panicked on the ring 0 -> 1 -> 2 -> 0.
C21_Witness ==
    /\ last.op = "route"
    /\ fatal = "Cycle detected."
    /\ IsRing
    /\ Len(vertex) = 3

\* The descriptors route returned are the known constants of the frame
\* that the tick call with result r returns.
RouteMatches(r) ==
    r.net.fatal = "none" =>
        last'.out = [c \in 1..output |-> SignalValue(r.out[c])]

\* C22: on an acyclic graph on which route and tick both succeed, route on
\* the known constants of the tick input returns, for every network output,
\* the known constant that tick computes for it.
C22_RouteAgreesWithTick ==
    [][(RouteStep /\ ~HasCycle /\ fatal' = "none") =>
          RouteMatches(tick(Net, TickInput(1)))]_vars

\* The course of determine_order_in on the graph of the state.
OrderWork == OrderEdges(vertex, all_edges(vertex))

\* The number of inputs the units of vs declare, from vertex i on.
RECURSIVE TotalInputs(_, _)
TotalInputs(vs, i) ==
    IF i > Len(vs) THEN 0 ELSE UnitInputs(vs[i].unit) + TotalInputs(vs, i + 1)

\* The determination w took at most limit scans and ended with every vertex
\* ordered or with the cycle error.
EndsWithin(w, limit) ==
    /\ w.scans <= limit
    /\ \/ /\ w.fatal = "none"
          /\ w.vertices_left = 0
          /\ \A i \in 1..Len(w.vertex_left) : ~w.vertex_left[i]
       \/ w.fatal = "Cycle detected."

\* C24: on every graph, cyclic or not, order determination ends after at
\* most one scan per vertex input plus one, with an order or with the cycle
\* error.
C24_OrderingTerminates == EndsWithin(OrderWork, TotalInputs(vertex, 1) + 1)

\* A tick has ended with the cycle error in the scan after one that made
\* progress.
C24_Witness ==
    /\ last.op = "tick"
    /\ fatal = "Cycle detected."
    /\ OrderWork.scans = 2
    /\ OrderWork.order # <<>>

\* No position of all_edges occurs twice in the sequence counted.
CountedOnce(counted) ==
    \A a \in 1..Len(counted) : \A b \in 1..Len(counted) :
        a # b => counted[a] # counted[b]

\* Every input edge of every vertex of the order w found has lowered a
\* counter.
OrderedWhenSatisfied(w, edges) ==
    \A k \in 1..Len(edges) :
        (\E j \in 1..Len(w.order) : w.order[j] = edges[k].target.node) =>
            \E a \in 1..Len(w.counted) : w.counted[a] = k

\* C26: in the order determination of a call on an acyclic graph, each
\* incoming edge lowers the counter of its target at most once, and a vertex
\* is in the order only when each of its input edges has lowered it.
C26_EdgeCountedOnce ==
    (last.op \in {"tick", "process", "route"} /\ ~HasCycle) =>
        /\ CountedOnce(OrderWork.counted)
        /\ OrderedWhenSatisfied(OrderWork, all_edges(vertex))

\* The sequence ids holds every vertex id exactly once.
EachOnce(ids) ==
    /\ Len(ids) = Len(vertex)
    /\ \A v \in Ids : \E k \in 1..Len(ids) : ids[k] = v

\* C27: when the order determination of a tick or process call completes
\* without a panic, the order holds every vertex id exactly once and the call
\* invokes the unit of every vertex exactly once.
C27_EveryUnitOnce ==
    [][(TickOrProcessStep /\ ~ordered /\ OrderWork.fatal = "none") =>
          /\ EachOnce(order')
          /\ EachOnce(last'.evaluated)]_vars

\* C28: whenever the cache is marked valid, the cached order holds every
\* current vertex id exactly once and is the order computed for the current
\* edge tables, also after a determination that was aborted by a cycle.
C28_ValidCacheIsCurrent ==
    ordered => /\ EachOnce(order)
               /\ order = OrderWork.order

(***************************************************************************)
(* Properties of the calls, continued (Spec).                              *)
(***************************************************************************)
\* Vertex s (0-based) was evaluated by the last call.
EvaluatedNow(s) == \E k \in 1..Len(last.evaluated) : last.evaluated[k] = s

\* The sample the last tick owes a network output whose edge has source src.
OutputSample(src) ==
    CASE src.kind = "Zero" -> 0
      [] src.kind = "Global" -> last.in[src.port + 1]
      [] src.kind = "Local" -> vertex[src.node + 1].tick_output[src.port + 1]

\* The block the last process call, of last.in[1] samples, owes a network
\* output whose edge has source src.
OutputBlock(src) ==
    SubSeq(CASE src.kind = "Zero" -> Zeros(MaxBlock)
             [] src.kind = "Global" -> ProcessInput(last.in[1])[src.port + 1]
             [] src.kind = "Local" -> vertex[src.node + 1].output[src.port + 1],
           1, last.in[1])

\* C23: a tick or process call that returns has set network output o from
\* output edge o: 0 for Zero, the call's own input p for Global(p), and for
\* Local(s, p) output p of vertex s, which the call has evaluated.
C23_OutputsFollowOutputEdges ==
    (last.op \in {"tick", "process"} /\ fatal = "none") =>
        /\ Len(last.out) = output
        /\ \A c \in 1..output :
              /\ output_edge[c].source.kind = "Local" =>
                     EvaluatedNow(output_edge[c].source.node)
              /\ last.out[c] = IF last.op = "tick"
                               THEN OutputSample(output_edge[c].source)
                               ELSE OutputBlock(output_edge[c].source)

\* tick([1]) of a passthrough between pipe_input and pipe_output returned [1].
C23_Witness ==
    /\ last.op = "tick"
    /\ fatal = "none"
    /\ Len(vertex) = 1
    /\ vertex[1].unit = Unit("pass", 0)
    /\ vertex[1].source = PipedInputs(0)
    /\ output_edge = PipedOutputs(0)
    /\ last.in = <<1>>
    /\ last.out = <<1>>

\* The placeholder vertices the walk of a call builds with Vertex48::new,
\* one at the start of the iteration of every vertex it evaluated.
Placeholders(evaluated) ==
    [k \in 1..Len(evaluated) |-> VertexNew(evaluated[k], 0, 0)]

SameVertex(w, v) ==
    /\ w.id = v.id
    /\ w.unit = v.unit
    /\ w.source = v.source
    /\ Len(w.input) = Len(v.input)
    /\ Len(w.output) = Len(v.output)
    /\ Len(w.tick_input) = Len(v.tick_input)
    /\ Len(w.tick_output) = Len(v.tick_output)

\* C29: when a tick or process call returns, every vertex is back at its
\* index, and the call changed no incoming edge, output edge, vertex id or
\* the number of vertices.
C29_CallRestoresVertices ==
    [][(TickOrProcessStep /\ fatal' = "none") =>
          /\ Len(vertex') = Len(vertex)
          /\ \A v \in 1..Len(vertex) : SameVertex(vertex'[v], vertex[v])
          /\ output_edge' = output_edge]_vars

C29_Witness ==
    /\ last.op \in {"tick", "process"}
    /\ fatal = "none"
    /\ Len(last.evaluated) = 2
    /\ \E v \in 1..Len(vertex) : \E p \in 1..Len(vertex[v].source) :
           vertex[v].source[p].source.kind = "Local"
    /\ \E o \in 1..Len(output_edge) : output_edge[o].source.kind = "Local"

(***************************************************************************)
(* Properties of the edge tables, continued (SpecEdit).                    *)
(***************************************************************************)
\* The targets of the edges handed to order determination.
EdgeTargets == [k \in 1..Len(all_edges(vertex)) |-> all_edges(vertex)[k].target]

\* Every input of every vertex is the target of exactly one edge of the list.
EveryInputOnce ==
    \A v \in 1..Len(vertex) : \A p \in 1..VertexInputs(vertex[v]) :
        Cardinality({k \in 1..Len(EdgeTargets) : EdgeTargets[k] = Local(v - 1, p - 1)}) = 1

\* C30: after any sequence of edits, join included, the edge in input slot p
\* of vertex v has target Local(v, p), the edge in output slot o has target
\* Global(o), and the edge list of order determination holds every vertex
\* input exactly once as a target.
C30_SlotsHoldTheirTargets ==
    /\ \A v \in 1..Len(vertex) :
          /\ Len(vertex[v].source) = VertexInputs(vertex[v])
          /\ \A p \in 1..Len(vertex[v].source) :
                vertex[v].source[p].target = Local(v - 1, p - 1)
    /\ Len(output_edge) = output
    /\ \A o \in 1..Len(output_edge) : output_edge[o].target = Global(o - 1)
    /\ EveryInputOnce

C30_Witness ==
    /\ last.op = "join"
    /\ fatal = "none"
    /\ last.arg = <<edge(Global(0), Local(0, 1))>>
    /\ Len(vertex) = 2
    /\ vertex[1].source[2] = edge(Global(0), Local(0, 1))
    /\ vertex[1].source[1].source.kind = "Local"

(***************************************************************************)
(* read_stream.rs: load_track spawns the decode task and waits on a        *)
(* channel of capacity 1 for the handle of the wave; the task decodes the  *)
(* packets of the selected track into the wave behind an RwLock.           *)
(*                                                                         *)
(* The file is what the Symphonia reader reports of it: whether it opens   *)
(* and probes, its tracks [id, codec, channels] and its packets            *)
(* [track_id, frames, decodes], after which next_packet returns an error.  *)
(* A codec is "null" (CODEC_TYPE_NULL), "known" (a decoder can be made) or *)
(* "unsupported" (not null, but get_codecs().make fails).                  *)
(***************************************************************************)
MaxTracks == 2

MaxPackets == 2

MaxFrames == 2

CODEC_TYPE_NULL == "null"

\* reader.tracks().get(t) (read_stream.rs 103): <<>> is None.
TracksGet(tracks, t) == IF t < Len(tracks) THEN <<tracks[t + 1]>> ELSE <<>>

\* Position of the first element of xs from k on whose field passes the
\* test, or 0: Iterator::find.
RECURSIVE FindFrom(_, _, _)
FindFrom(hits, n, k) ==
    IF k > n THEN 0 ELSE IF k \in hits THEN k ELSE FindFrom(hits, n, k + 1)

\* reader.tracks().iter().find(|t| t.codec_params.codec != CODEC_TYPE_NULL)
\* (read_stream.rs 104-107).
FindKnownCodec(tracks) ==
    FindFrom({i \in 1..Len(tracks) : tracks[i].codec # CODEC_TYPE_NULL}, Len(tracks), 1)

\* The closure of or_else as an Option.
OrElseFirstKnown(tracks, k) == IF k = 0 THEN <<>> ELSE <<tracks[k]>>

\* read_stream.rs 103-108: track.and_then(get).or_else(first known codec).
SelectTrack(tracks, track) ==
    IF track # <<>> /\ TracksGet(tracks, track[1]) # <<>>
    THEN TracksGet(tracks, track[1])
    ELSE OrElseFirstKnown(tracks, FindKnownCodec(tracks))

\* read_stream.rs 115-118: reader.tracks().iter().find(|track| track.id ==
\* track_id), as a position.
FindTrackId(tracks, track_id) ==
    FindFrom({i \in 1..Len(tracks) : tracks[i].id = track_id}, Len(tracks), 1)

(***************************************************************************)
(* WaveStream48 (wave_stream.rs), by what decode calls of it: a vector of  *)
(* samples per channel and the loaded mark.  A sample is 0 as pushed and   *)
(* the number of its packet once set.                                      *)
(***************************************************************************)
\* WaveStream48::new(channels, rate, frames).
WaveStreamNew(channels) ==
    [vec |-> [c \in 1..channels |-> <<>>], loaded |-> FALSE]

\* wave.len(): the number of frames.
WaveLen(w) == IF Len(w.vec) = 0 THEN 0 ELSE Len(w.vec[1])

\* wave.push(0.0), n times: n frames of the given sample on every channel.
WavePush(w, n, sample) ==
    [w EXCEPT !.vec = [c \in 1..Len(w.vec) |-> w.vec[c] \o [i \in 1..n |-> sample]]]

\* wave.set(channel, i, sample) for the last n frames of a channel.
WaveSetLast(w, channel, n, sample) ==
    [w EXCEPT !.vec[channel + 1] =
        [i \in 1..Len(@) |-> IF i > Len(@) - n THEN sample ELSE @[i]]]

\* wave.set_loaded().
WaveSetLoaded(w) == [w EXCEPT !.loaded = TRUE]

(***************************************************************************)
(* The decode task (read_stream.rs 81-224) as steps on its record          *)
(* [pc, track_id, channels, next, channel]; pc is the result once the     *)
(* task returned.                                                          *)
(***************************************************************************)
\* The task as tokio::spawn starts it (read_stream.rs 66-67).
Spawned ==
    [pc |-> "probe", track_id |-> 0, channels |-> 0, next |-> 1, channel |-> 0]

\* decode returns: the sender tx is dropped with it.
Returned(t, result) == [t EXCEPT !.pc = result]

Results ==
    {"Ok", "probe failed", "Could not find track.", "no decoder", "decode error",
     "end of stream"}

TxDropped(t) == t.pc \in Results

\* read_stream.rs 98-99, 222: the probe of the format.
Probe(t, f) ==
    IF f.probed THEN [t EXCEPT !.pc = "select"] ELSE Returned(t, "probe failed")

\* read_stream.rs 110-118: the id of the selected track, then the track
\* with that id.
TrackOf(t, tracks, sel) ==
    IF sel = <<>> THEN Returned(t, "Could not find track.")
    ELSE IF FindTrackId(tracks, sel[1].id) = 0 THEN Returned(t, "Could not find track.")
    ELSE [t EXCEPT !.pc = "make",
                   !.track_id = sel[1].id,
                   !.channels = tracks[FindTrackId(tracks, sel[1].id)].channels]

\* read_stream.rs 124-125: get_codecs().make(&track.codec_params, ..)?
Make(t, track) ==
    IF track.codec = "known" THEN [t EXCEPT !.pc = "next_packet"]
    ELSE Returned(t, "no decoder")

\* read_stream.rs 130-137, with the end of stream retried instead of
\* returned when no wave exists.
NextPacketErrRetries(t, w) ==
    IF w # <<>> THEN [t EXCEPT !.pc = "finish"] ELSE t

\* read_stream.rs 130-137: next_packet failed.
NextPacketErr(t, w) ==
    IF w # <<>> THEN [t EXCEPT !.pc = "finish"] ELSE Returned(t, "end of stream")

\* read_stream.rs 140-143: a packet of another track is skipped.
NextPacketOk(t, packet) ==
    IF packet.track_id # t.track_id THEN [t EXCEPT !.next = @ + 1]
    ELSE [t EXCEPT !.pc = "decode"]

\* read_stream.rs 145-146, 218: decoder.decode(&packet).
Decoded(t, packet) ==
    IF packet.decodes THEN [t EXCEPT !.pc = "write"] ELSE Returned(t, "decode error")

\* read_stream.rs 147-153: the wave is created by the first decoded packet.
WaveOf(t, w) == IF w = <<>> THEN <<WaveStreamNew(t.channels)>> ELSE w

\* read_stream.rs 152: tx.send(w.clone()), once, when the wave is created.
Sent(queue, w) == IF w = <<>> THEN Append(queue, 1) ELSE queue

\* read_stream.rs 199 without the write lock.
WriteLockNotTaken(l) == l

\* read_stream.rs 199: wave_output.write().await.
WriteLock(l) == [l EXCEPT !.writer = TRUE]

\* The write guard is dropped (read_stream.rs 216, and 132).
WriteUnlock(l) == [l EXCEPT !.writer = FALSE]

\* The lock can be taken for writing.
Writable(l) == ~l.writer /\ l.readers = 0

\* read_stream.rs 200-215: the part of the channel loop for t.channel; the
\* loop ends with the last channel, and with it the block of the guard.
ChannelDone(t) ==
    IF t.channel + 1 < t.channels THEN [t EXCEPT !.channel = @ + 1]
    ELSE [t EXCEPT !.pc = "next_packet", !.channel = 0, !.next = @ + 1]

(***************************************************************************)
(* SpecStream: one load_track call on a file of at most MaxTracks tracks   *)
(* and MaxPackets packets, the decode task it spawns, and the holder of    *)
(* the returned handle taking and dropping the read lock.                  *)
(***************************************************************************)
TrackIds == {1, 2}

\* The track with id i has i channels.
TrackChoices ==
    {[id |-> i, codec |-> c, channels |-> i] :
        i \in TrackIds, c \in {CODEC_TYPE_NULL, "known", "unsupported"}}

PacketChoices ==
    {[track_id |-> i, frames |-> n, decodes |-> d] :
        i \in TrackIds, n \in 1..MaxFrames, d \in BOOLEAN}

\* Sequences of at most n elements of S.
SeqUpTo(S, n) == UNION {[1..k -> S] : k \in 0..n}

\* Track ids are unique within a file.
TrackLists ==
    {ts \in SeqUpTo(TrackChoices, MaxTracks) :
        \A i, j \in 1..Len(ts) : ts[i].id = ts[j].id => i = j}

Unreadable(opened) ==
    [opened |-> opened, probed |-> FALSE, tracks |-> <<>>, packets |-> <<>>]

Files ==
    {Unreadable(FALSE), Unreadable(TRUE)} \cup
    {[opened |-> TRUE, probed |-> TRUE, tracks |-> ts, packets |-> ps] :
        ts \in TrackLists, ps \in SeqUpTo(PacketChoices, MaxPackets)}

\* load_track(path, track): None, or Some(t) up to one past the last track.
Requests == {<<>>} \cup {<<t>> : t \in 0..MaxTracks}

\* The net plays no part in a load, an envelope or an alias.
NoNet ==
    /\ Created(NetNew(0, 0))
    /\ fatal = "none"
    /\ last = NoCall
    /\ calls = 0
    /\ late = 0

InitStream ==
    /\ NoNet
    /\ NoEnvelope
    /\ NoAlias
    /\ file \in Files
    /\ request \in Requests
    /\ caller = "start"
    /\ task = [pc |-> "idle", track_id |-> 0, channels |-> 0, next |-> 1, channel |-> 0]
    /\ rx = <<>>
    /\ wave = <<>>
    /\ lock = [writer |-> FALSE, readers |-> 0]

\* The net, the envelope and the aliases stay as they are.
StreamOnly == UNCHANGED <<netVars, envelopeVars, aliasVars, file, request>>

\* read_stream.rs 59-69: File::open, then the channel and the spawn.
LoadTrackOpen ==
    /\ caller = "start"
    /\ caller' = IF file.opened THEN "recv" ELSE "Err(IoError)"
    /\ task' = IF file.opened THEN Spawned ELSE task
    /\ UNCHANGED <<rx, wave, lock>>
    /\ StreamOnly

\* rx.recv().await (read_stream.rs 70-77): a handle if one was sent, None
\* once the channel is empty and the sender dropped.
LoadTrackRecv ==
    /\ caller = "recv"
    /\ rx # <<>> \/ TxDropped(task)
    /\ caller' = IF rx # <<>> THEN "Ok" ELSE "Err(Unsupported)"
    /\ rx' = IF rx # <<>> THEN Tail(rx) ELSE rx
    /\ UNCHANGED <<task, wave, lock>>
    /\ StreamOnly

\* A step of the task that touches neither the wave nor the lock.
TaskStep(pc, t) ==
    /\ task.pc = pc
    /\ task' = t
    /\ UNCHANGED <<caller, rx, wave, lock>>
    /\ StreamOnly

DecodeProbe ==
    /\ task.pc = "probe"
    /\ TaskStep("probe", Probe(task, file))

DecodeSelect ==
    /\ task.pc = "select"
    /\ TaskStep("select", TrackOf(task, file.tracks, SelectTrack(file.tracks, request)))

DecodeMake ==
    /\ task.pc = "make"
    /\ TaskStep("make", Make(task, file.tracks[FindTrackId(file.tracks, task.track_id)]))

\* read_stream.rs 128-143.
DecodeNextPacket ==
    /\ task.pc = "next_packet"
    /\ TaskStep("next_packet",
                IF task.next > Len(file.packets) THEN NextPacketErr(task, wave)
                ELSE NextPacketOk(task, file.packets[task.next]))

\* read_stream.rs 145-153, 218: decode the packet; the first decoded packet
\* creates the wave and sends its handle.  send waits while the channel is
\* full.
DecodeDecode ==
    /\ task.pc = "decode"
    /\ task' = Decoded(task, file.packets[task.next])
    /\ wave' = IF task'.pc = "write" THEN WaveOf(task, wave) ELSE wave
    /\ rx' = IF task'.pc = "write" THEN Sent(rx, wave) ELSE rx
    /\ Len(rx') <= 1
    /\ UNCHANGED <<caller, lock>>
    /\ StreamOnly

\* read_stream.rs 199: wait for the write lock.
DecodeWrite ==
    /\ task.pc = "write"
    /\ Writable(lock)
    /\ lock' = WriteLock(lock)
    /\ task' = [task EXCEPT !.pc = "push"]
    /\ UNCHANGED <<caller, rx, wave>>
    /\ StreamOnly

\* read_stream.rs 202-206: in the turn of channel 0, one frame of zeros is
\* pushed per frame of the packet.
DecodePush ==
    /\ task.pc = "push"
    /\ wave' = <<WavePush(wave[1], file.packets[task.next].frames, 0)>>
    /\ task' = [task EXCEPT !.pc = "set", !.channel = 0]
    /\ UNCHANGED <<caller, rx, lock>>
    /\ StreamOnly

\* read_stream.rs 207-216: the samples of one channel are set; after the
\* last channel the guard is dropped.
DecodeSet ==
    /\ task.pc = "set"
    /\ wave' = <<WaveSetLast(wave[1], task.channel, file.packets[task.next].frames,
                             task.next)>>
    /\ task' = ChannelDone(task)
    /\ lock' = IF task'.pc = "set" THEN lock ELSE WriteUnlock(lock)
    /\ UNCHANGED <<caller, rx>>
    /\ StreamOnly

\* read_stream.rs 131-133: at the end of the stream the wave is marked
\* loaded under the write lock and the task returns Ok.
DecodeFinish ==
    /\ task.pc = "finish"
    /\ Writable(lock)
    /\ wave' = <<WaveSetLoaded(wave[1])>>
    /\ task' = Returned(task, "Ok")
    /\ UNCHANGED <<caller, rx, lock>>
    /\ StreamOnly

\* The holder of the handle takes the read lock; a waiting writer goes
\* first (tokio's RwLock is write-preferring).
ReadLock ==
    /\ caller = "Ok"
    /\ ~lock.writer
    /\ lock.readers = 0
    /\ task.pc \notin {"write", "finish"}
    /\ lock' = [lock EXCEPT !.readers = @ + 1]
    /\ UNCHANGED <<caller, task, rx, wave>>
    /\ StreamOnly

ReadUnlock ==
    /\ lock.readers > 0
    /\ lock' = [lock EXCEPT !.readers = @ - 1]
    /\ UNCHANGED <<caller, task, rx, wave>>
    /\ StreamOnly

DecodeTask ==
    \/ DecodeProbe
    \/ DecodeSelect
    \/ DecodeMake
    \/ DecodeNextPacket
    \/ DecodeDecode
    \/ DecodeWrite
    \/ DecodePush
    \/ DecodeSet
    \/ DecodeFinish

NextStream ==
    \/ LoadTrackOpen
    \/ LoadTrackRecv
    \/ DecodeProbe
    \/ DecodeSelect
    \/ DecodeMake
    \/ DecodeNextPacket
    \/ DecodeDecode
    \/ DecodeWrite
    \/ DecodePush
    \/ DecodeSet
    \/ DecodeFinish
    \/ ReadLock
    \/ ReadUnlock

SpecStream == InitStream /\ [][NextStream]_vars

\* The runtime runs the spawned task and the waiting caller, and a reader
\* drops its guard.
SpecStreamLive ==
    /\ SpecStream
    /\ WF_vars(DecodeTask)
    /\ WF_vars(LoadTrackRecv)
    /\ WF_vars(ReadUnlock)

(***************************************************************************)
(* Properties of the streamed load (SpecStream, SpecStreamLive).           *)
(***************************************************************************)
\* load_track returned.
LoadTrackReturned == caller \in {"Ok", "Err(Unsupported)", "Err(IoError)"}

\* C31: once the file is opened load_track completes.  It returns Ok only
\* with a handle the task sent, the task sends a handle at most once, on
\* creating the wave; it returns an error only when the task ended without
\* sending; a sent handle leads to Ok, a task that ended without sending to
\* the error, and load_track never stays waiting on the channel.
C31_LoadTrackCompletes ==
    /\ [](caller = "Ok" => wave # <<>>)
    /\ [](caller = "Err(Unsupported)" => TxDropped(task) /\ wave = <<>>)
    /\ [][rx' # rx => \/ rx = <<>> /\ rx' = <<1>> /\ wave = <<>> /\ wave' # <<>>
                      \/ rx' = <<>> /\ caller' = "Ok"]_vars
    /\ [][wave # <<>> => wave' # <<>>]_vars
    /\ (caller = "recv" /\ wave # <<>>) ~> (caller = "Ok")
    /\ (caller = "recv" /\ TxDropped(task) /\ wave = <<>>) ~> (caller = "Err(Unsupported)")
    /\ (caller = "recv") ~> LoadTrackReturned

C31_Witness ==
    /\ caller = "Ok"
    /\ task.pc = "Ok"
    /\ Len(file.packets) = MaxPackets
    /\ file.packets[1].track_id # task.track_id
    /\ rx = <<>>

\* Every sample of the wave was set: none is the zero of a push.
WaveComplete(w) ==
    \A c \in 1..Len(w.vec) :
        /\ Len(w.vec[c]) = WaveLen(w)
        /\ \A i \in 1..Len(w.vec[c]) : w.vec[c][i] # 0

\* C32: once the decode task has stopped, for whatever reason, the wave whose
\* handle load_track returned gets marked loaded; and a wave is marked loaded
\* only when its last samples are appended and the task appends no more.
C32_StoppedTaskMarksLoaded ==
    /\ []((wave # <<>> /\ wave[1].loaded) => (TxDropped(task) /\ WaveComplete(wave[1])))
    /\ (TxDropped(task) /\ wave # <<>>) ~> (wave # <<>> /\ wave[1].loaded)

\* The frames of the packets before position k that belong to the track.
RECURSIVE FramesBefore(_, _, _)
FramesBefore(packets, track_id, k) ==
    IF k <= 1 THEN 0
    ELSE FramesBefore(packets, track_id, k - 1) +
         (IF packets[k - 1].track_id = track_id THEN packets[k - 1].frames ELSE 0)

\* C33: the task appends a packet under the write lock held for the whole
\* packet: a holder of the read lock never sees a wave with samples of a
\* packet pushed and not yet set; whenever the write lock is free the wave
\* holds exactly the frames of the packets decoded so far; its length never
\* decreases and grows by the packet's frame count per decoded packet.
C33_PacketAppendedUnderLock ==
    /\ [](lock.readers > 0 => (wave # <<>> /\ WaveComplete(wave[1])))
    /\ []((wave # <<>> /\ ~lock.writer) =>
             WaveLen(wave[1]) = FramesBefore(file.packets, task.track_id, task.next))
    /\ [][wave # <<>> => WaveLen(wave'[1]) >= WaveLen(wave[1])]_vars
    /\ [][(task.pc = "push" /\ task'.pc = "set") =>
             /\ lock.writer
             /\ WaveLen(wave'[1]) = WaveLen(wave[1]) + file.packets[task.next].frames]_vars
    /\ [][(task.pc = "set" /\ ~lock'.writer) =>
             /\ lock.writer
             /\ WaveComplete(wave'[1])]_vars

C33_Witness ==
    /\ lock.readers > 0
    /\ task.pc = "finish"
    /\ wave # <<>>
    /\ Len(wave[1].vec) = 2
    /\ WaveLen(wave[1]) = 3

\* The track a request asks for: track t for Some(t), the first track with a
\* known codec for None; <<>> when there is no such track.
Requested(tracks, track) ==
    IF track = <<>> THEN OrElseFirstKnown(tracks, FindKnownCodec(tracks))
    ELSE TracksGet(tracks, track[1])

\* The task is past the selection of the track.
PastSelection == task.pc \notin {"idle", "probe", "probe failed", "select"}

\* The packets whose samples a wave may hold.
PacketsOf(track_id) ==
    {k \in 1..Len(file.packets) : file.packets[k].track_id = track_id}

\* C34: Some(t) loads track t and None the first track with a known codec;
\* when there is no such track the load fails with an error; and only
\* packets with the selected track's id contribute samples to the wave.
C34_RequestedTrackLoaded ==
    /\ PastSelection =>
          IF Requested(file.tracks, request) = <<>>
          THEN task.pc = "Could not find track." /\ caller # "Ok"
          ELSE /\ task.pc # "Could not find track."
               /\ task.track_id = Requested(file.tracks, request)[1].id
    /\ wave # <<>> =>
          \A c \in 1..Len(wave[1].vec) : \A i \in 1..Len(wave[1].vec[c]) :
              wave[1].vec[c][i] \in {0} \cup PacketsOf(task.track_id)

(***************************************************************************)
(* envelope.rs: EnvelopeNode samples a function of time at jittered        *)
(* points and interpolates linearly between them.  Time is counted in      *)
(* sample durations and values in units in which every interpolation of    *)
(* the functions below is a whole number.  lerp, delerp, rnd and hashw are *)
(* of math.rs: rnd and hashw stand as fixed functions of the hash.         *)
(***************************************************************************)
MaxTicks == 6

\* The envelope functions F tried, at a time t.
Envelopes == {"ramp", "flat", "rise"}

EnvelopeAt(envelope, t) ==
    CASE envelope = "ramp" -> 24 * t + 24
      [] envelope = "flat" -> 24
      [] envelope = "rise" -> 24 * t

\* Intervals, in sample durations.
Intervals == {4, 8}

HashBits == 16

\* hashw(x): a fixed scrambling of the hash.
hashw(x) == (5 * x + 3) % HashBits

\* rnd(x) in [0, 1), in halves.
rnd(x) == x % 2

\* interval * lerp(0.75, 1.25, rnd(t_hash)) (envelope.rs 67).
Jittered(interval, t_hash) == (interval * (3 + rnd(t_hash))) \div 4

\* lerp(a, b, delerp(t_0, t_1, t)) (envelope.rs 71-75).
lerp(a, b, t_0, t_1, t) == a + ((b - a) * (t - t_0)) \div (t_1 - t_0)

\* x ^ y on hashes.
RECURSIVE BitXor(_, _)
BitXor(x, y) ==
    IF x = 0 THEN y
    ELSE IF y = 0 THEN x
    ELSE ((x + y) % 2) + 2 * BitXor(x \div 2, y \div 2)

\* reset(sample_rate) (envelope.rs 46-56); sample_rate is <<>> or <<sr>>,
\* and a sample duration is the unit of time.
EnvelopeReset(c, sample_rate) ==
    [c EXCEPT !.t = 0,
              !.t_0 = 0,
              !.t_1 = 0,
              !.t_hash = c.hash,
              !.value_0 = EnvelopeAt(c.envelope, 0),
              !.value_1 = 0,
              !.sample_duration = IF sample_rate # <<>> THEN 1 \div sample_rate[1] ELSE @]

\* EnvelopeNode::new(interval, sample_rate, envelope) (envelope.rs 22-38).
EnvelopeNew(interval, sample_rate, envelope) ==
    EnvelopeReset([envelope |-> envelope, t |-> 0, t_0 |-> 0, t_1 |-> 0, t_hash |-> 0,
                   value_0 |-> 0, value_1 |-> 0, interval |-> interval,
                   sample_duration |-> 0, hash |-> 0],
                  <<sample_rate>>)

\* envelope.rs 63-70: a new sample point is taken once t reached t_1.
NextPoint(c) ==
    IF c.t >= c.t_1
    THEN [c EXCEPT !.t_0 = c.t_1,
                   !.value_0 = c.value_1,
                   !.t_1 = c.t_1 + Jittered(c.interval, c.t_hash),
                   !.value_1 = EnvelopeAt(c.envelope,
                                          c.t_1 + Jittered(c.interval, c.t_hash)),
                   !.t_hash = hashw(c.t_hash)]
    ELSE c

\* envelope.rs 71-75: the value output by a tick of the node at its point.
EnvelopeValue(c) == lerp(c.value_0, c.value_1, c.t_0, c.t_1, c.t)

\* envelope.rs 76: time advances by one sample.
Advance(c) == [c EXCEPT !.t = @ + c.sample_duration]

\* tick (envelope.rs 59-78): the node after the call.
EnvelopeTick(c) == Advance(NextPoint(c))

\* ping(hash) (envelope.rs 81-84).
EnvelopePing(c, hash) == [c EXCEPT !.hash = hashw(BitXor(14, hash))]

(***************************************************************************)
(* SpecEnvelope: a node is constructed, then ticked, reset and pinged.     *)
(***************************************************************************)
EnvelopeOnly == UNCHANGED <<netVars, streamVars, aliasVars>>

InitEnvelope ==
    /\ NoNet
    /\ NoStream
    /\ NoAlias
    /\ \E interval \in Intervals, envelope \in Envelopes :
           component = <<EnvelopeNew(interval, 1, envelope)>>
    /\ heard = <<>>
    /\ pinged = FALSE

TickEnvelope ==
    /\ Len(heard) < MaxTicks
    /\ component' = <<EnvelopeTick(component[1])>>
    /\ heard' = Append(heard, EnvelopeValue(NextPoint(component[1])))
    /\ UNCHANGED pinged
    /\ EnvelopeOnly

ResetEnvelope ==
    /\ \E sample_rate \in {<<>>, <<1>>} :
           component' = <<EnvelopeReset(component[1], sample_rate)>>
    /\ heard' = <<>>
    /\ pinged' = FALSE
    /\ EnvelopeOnly

PingEnvelope ==
    /\ \E hash \in 0..1 : component' = <<EnvelopePing(component[1], hash)>>
    /\ pinged' = (pinged \/ component'[1].hash # component[1].hash)
    /\ UNCHANGED heard
    /\ EnvelopeOnly

NextEnvelope ==
    \/ TickEnvelope
    \/ ResetEnvelope
    \/ PingEnvelope

SpecEnvelope == InitEnvelope /\ [][NextEnvelope]_vars

(***************************************************************************)
(* Properties of the envelope node (SpecEnvelope).                         *)
(***************************************************************************)
\* The samples of n ticks of the node c.
RECURSIVE TickOutputsFrom(_, _)
TickOutputsFrom(c, n) ==
    IF n = 0 THEN <<>>
    ELSE <<EnvelopeValue(NextPoint(c))>> \o TickOutputsFrom(EnvelopeTick(c), n - 1)

\* C35: the first sample output after construction or reset is the value of
\* the envelope function at time 0, and the samples since the last reset are
\* those that a reset and as many ticks produce again.
C35_FirstSampleIsEnvelopeAtZero ==
    /\ heard # <<>> => heard[1] = EnvelopeAt(component[1].envelope, 0)
    /\ ~pinged => heard = TickOutputsFrom(EnvelopeReset(component[1], <<>>), Len(heard))

(***************************************************************************)
(* hacker.rs: the arity aliases U0..U128 of the prelude.  A typenum        *)
(* unsigned integer is a type UInt<UInt<.., B1>, B0>: its bits, the most   *)
(* significant first, and UTerm, no bits, for zero.                        *)
(***************************************************************************)
MaxArity == 128

\* numeric_array::typenum::Un.
RECURSIVE TypenumU(_)
TypenumU(n) == IF n = 0 THEN <<>> ELSE Append(TypenumU(n \div 2), n % 2)

\* <U as Unsigned>::to_usize(): the integer a typenum type denotes.
RECURSIVE ToUsize(_)
ToUsize(bits) ==
    IF bits = <<>> THEN 0
    ELSE 2 * ToUsize(SubSeq(bits, 1, Len(bits) - 1)) + bits[Len(bits)]

\* pub type Un = numeric_array::typenum::U.. (hacker.rs 52-180): every line
\* names the typenum integer of its own n, but for line 142,
\* pub type U90 = numeric_array::typenum::U80.
HackerU(n) == IF n = 90 THEN TypenumU(80) ELSE TypenumU(n)

(***************************************************************************)
(* SpecAlias: one of the aliases is resolved.                              *)
(***************************************************************************)
InitAlias ==
    /\ NoNet
    /\ NoStream
    /\ NoEnvelope
    /\ arity \in 0..MaxArity
    /\ denoted = <<>>

\* The compiler resolves the alias of the arity.
Resolve ==
    /\ denoted = <<>>
    /\ denoted' = <<HackerU(arity)>>
    /\ UNCHANGED <<arity, netVars, streamVars, envelopeVars>>

NextAlias == Resolve

SpecAlias == InitAlias /\ [][NextAlias]_vars

\* C36: for every n from 0 to 128 the alias Un denotes the type-level
\* integer n.
C36_AliasDenotesItsNumber ==
    denoted # <<>> => ToUsize(denoted[1]) = arity

====
